---- MODULE Spec2Model ----
(***************************************************************************)
(* TITAN-API: the workflow status aggregation of the v2 and v3 status      *)
(* endpoints (titan/routes/v2/workflow.py, titan/routes/v3/workflow.py),  *)
(* the task compiler parse_to_list and the RDF exporter parse_to_rdf      *)
(* (titan/models/workflow.py), the v2 workflow endpoints with             *)
(* WorkflowManager (titan/manager.py) and bearer authentication           *)
(* (titan/auth.py), the validation of request bodies, the loop of the v3   *)
(* status endpoint over a page of workflows, concurrent register requests  *)
(* (titan/routes/v2/user.py) and concurrent query() calls on the shared    *)
(* Virtuoso instance (titan/semantic/repository.py).                       *)
(***************************************************************************)
EXTENDS Integers, Sequences, FiniteSets, TLC

(***************************************************************************)
(* Bounds of the model.                                                    *)
(***************************************************************************)
\* longest task list of an engine status report
MaxTasks == 3
\* most links of a workflow document
MaxLinks == 2
\* most parameters of an operator
MaxParams == 2

(***************************************************************************)
(* Values.                                                                 *)
(***************************************************************************)
\* Python's None (a missing dictionary entry read with .get, an unset field)
None == "<None>"

\* titan.models.workflow.State
STATUS_UNKNOWN == "UNKNOWN"
STATUS_REVOKED == "REVOKED"
STATUS_PENDING == "PENDING"
STATUS_RUNNING == "RUNNING"
STATUS_FAILED == "FAILED"
STATUS_DONE == "DONE"
State == {STATUS_UNKNOWN, STATUS_REVOKED, STATUS_PENDING, STATUS_RUNNING,
          STATUS_FAILED, STATUS_DONE}

\* The status strings an engine report may carry for one task: the six
\* states, differently-cased spellings of some of them (older engine
\* versions), a string that names no state, and no status at all.
RawStatus == State \cup {"done", "Pending", "bogus", None}

\* str.upper() on the spellings of RawStatus
upper(s) ==
    CASE s = "done" -> "DONE"
      [] s = "Pending" -> "PENDING"
      [] s = "bogus" -> "BOGUS"
      [] OTHER -> s

\* One task entry of the engine's report.
TaskEntry == [name : {"task"}, status : RawStatus]

TaskLists == UNION {[1..n -> TaskEntry] : n \in 0..MaxTasks}

\* The body of the engine's answer to /api/v2/workflow/status.  has_tasks
\* tells whether the "tasks" key is present; is_revoked is the truth value
\* of response.get("is_revoked").
EmptyResponse == [has_tasks |-> FALSE, tasks |-> <<>>, is_revoked |-> FALSE]

Responses ==
    {EmptyResponse} \cup
    [has_tasks : {TRUE}, tasks : TaskLists, is_revoked : BOOLEAN]

VARIABLES
    executed,      \* the stored workflow's last execution id, or None
    status_code,   \* the engine's HTTP status for the status request
    response,      \* the engine's answer (EmptyResponse on an HTTP error)
    call,          \* the endpoint that served the request, "none" before it
    with_status,   \* the with_status filter of the v3 /fstatus request
    result,        \* what the endpoint answered
    workflow,      \* the workflow dictionary handed to parse_to_list / parse_to_rdf
    parsed,        \* "no" before the call, then "returned" or the exception
    tasks,         \* the list parse_to_list returned
    workflow_id,   \* the workflow_id handed to parse_to_rdf
    exported,      \* "no" before parse_to_rdf, then "returned" or the exception
    graph,         \* the Graph parse_to_rdf returned: a set of triples
    other_id,      \* the workflow_id of a second export of the same document
    other_graph,   \* the Graph of the second export
    db,            \* the workflows collection: the set of its documents
    store,         \* the named graph of the triple store: a set of triples
    request,       \* the request served, NoRequest before it
    answer,        \* the HTTP answer to the request
    effects,       \* the writes and engine calls of the request, in order
    export,        \* the exception the RDF export of the request ended with
    inbound,       \* a request body as it arrives, unrecognized fields included
    dumped,        \* the dump of the validated body
    validation,    \* "no" before the body is validated and dumped, then "dumped"
    page,          \* the workflows find returned to the v3 status endpoint
    pos,           \* the workflow the loop of the endpoint is at (0: no request)
    workflows_with_status,  \* the list the loop has built
    engine_calls,  \* the status requests sent to the engine, in order
    page_answer,   \* the answer of the v3 status endpoint
    accounts,      \* the users collection: one document per insert_one
    registration,  \* per register request: its position, input and answer
    virtuoso_parameters,  \* self.parameters of the shared Virtuoso instance
    queries        \* per query() call: its position, query string, request sent

statusVars == <<executed, status_code, response, call, with_status, result>>

compileVars == <<workflow, parsed, tasks>>

rdfVars == <<workflow_id, exported, graph, other_id, other_graph>>

serviceVars == <<db, store, request, answer, effects, export>>

validateVars == <<inbound, dumped, validation>>

pageVars == <<page, pos, workflows_with_status, engine_calls, page_answer>>

registerVars == <<accounts, registration>>

queryVars == <<virtuoso_parameters, queries>>

vars == <<statusVars, compileVars, rdfVars, serviceVars, validateVars, pageVars,
          registerVars, queryVars>>

(***************************************************************************)
(* pydantic validation of titan.models.workflow.Task                      *)
(***************************************************************************)
\* Task(**task): status is an optional member of State, matched by value
\* (case-sensitive); the remaining fields of the entry are task-shaped.
TaskValidates(task) == task.status = None \/ task.status \in State

(***************************************************************************)
(* Status aggregation, v3 (/status and /fstatus share the code).           *)
(***************************************************************************)
\* _check(all, stats)
check_all(stats, tasks_statuses_only) ==
    \A i \in DOMAIN tasks_statuses_only : tasks_statuses_only[i] \in stats

\* _check(any, stats)
check_any(stats, tasks_statuses_only) ==
    \E i \in DOMAIN tasks_statuses_only : tasks_statuses_only[i] \in stats

\* A plausible slip: RUNNING is tested before PENDING.
V3WorkflowStatus_RunningFirst(is_revoked, tasks_statuses_only) ==
    IF is_revoked THEN STATUS_REVOKED
    ELSE IF check_all({STATUS_DONE}, tasks_statuses_only) THEN STATUS_DONE
    ELSE IF check_any({STATUS_FAILED}, tasks_statuses_only) THEN STATUS_FAILED
    ELSE IF check_all({STATUS_PENDING}, tasks_statuses_only) THEN STATUS_PENDING
    ELSE IF /\ check_any({STATUS_RUNNING}, tasks_statuses_only)
            /\ ~check_any({STATUS_FAILED}, tasks_statuses_only) THEN STATUS_RUNNING
    ELSE IF /\ check_any({STATUS_PENDING}, tasks_statuses_only)
            /\ ~check_any({STATUS_FAILED}, tasks_statuses_only) THEN STATUS_PENDING
    ELSE STATUS_UNKNOWN

\* the if/elif chain "check global status"
V3WorkflowStatus(is_revoked, tasks_statuses_only) ==
    IF is_revoked THEN STATUS_REVOKED
    ELSE IF check_all({STATUS_DONE}, tasks_statuses_only) THEN STATUS_DONE
    ELSE IF check_any({STATUS_FAILED}, tasks_statuses_only) THEN STATUS_FAILED
    ELSE IF check_all({STATUS_PENDING}, tasks_statuses_only) THEN STATUS_PENDING
    ELSE IF /\ check_any({STATUS_PENDING}, tasks_statuses_only)
            /\ ~check_any({STATUS_FAILED}, tasks_statuses_only) THEN STATUS_PENDING
    ELSE IF /\ check_any({STATUS_RUNNING}, tasks_statuses_only)
            /\ ~check_any({STATUS_FAILED}, tasks_statuses_only) THEN STATUS_RUNNING
    ELSE STATUS_UNKNOWN

\* Whether the try block of the per-workflow loop raises: a failed assert,
\* response["tasks"] missing (KeyError), Task(**task) rejected by pydantic
\* (ValidationError), task.get("status") is None (AttributeError on .upper).
V3Raises(workflow_executed, resp, code) ==
    \/ workflow_executed = None
    \/ code # 200
    \/ ~resp.has_tasks
    \/ \E i \in DOMAIN resp.tasks :
          \/ ~TaskValidates(resp.tasks[i])
          \/ resp.tasks[i].status = None

\* tasks_statuses_only: the upper-cased status of every entry
V3TasksStatusesOnly(resp) ==
    [i \in DOMAIN resp.tasks |-> upper(resp.tasks[i].status)]

\* tasks_with_status: Task(**task) of every entry, built from the entry as
\* reported (its status is not upper-cased)
V3TasksWithStatus(resp) ==
    [i \in DOMAIN resp.tasks |->
        [name |-> resp.tasks[i].name, status |-> resp.tasks[i].status]]

\* workflow_with_status after one pass of the loop body: the default
\* (tasks=None, status=UNKNOWN) survives whenever the try block raises.
V3WorkflowWithStatus(workflow_executed, resp, code) ==
    IF V3Raises(workflow_executed, resp, code)
    THEN [code |-> 200, has_tasks |-> FALSE, tasks |-> <<>>,
          status |-> STATUS_UNKNOWN]
    ELSE [code |-> 200, has_tasks |-> TRUE, tasks |-> V3TasksWithStatus(resp),
          status |-> V3WorkflowStatus(resp.is_revoked, V3TasksStatusesOnly(resp))]

(***************************************************************************)
(* Status aggregation, v2 /status.                                         *)
(***************************************************************************)
\* A plausible slip: the branch for PENDING/RUNNING mixes is missing.
V2WorkflowStatus_NoMixedBranch(tasks_status_only) ==
    IF check_all({STATUS_DONE}, tasks_status_only) THEN STATUS_DONE
    ELSE IF check_all({STATUS_PENDING}, tasks_status_only) THEN STATUS_PENDING
    ELSE IF check_all({STATUS_RUNNING}, tasks_status_only) THEN STATUS_RUNNING
    ELSE IF check_any({STATUS_FAILED}, tasks_status_only) THEN STATUS_FAILED
    ELSE STATUS_UNKNOWN

\* A plausible slip: FAILED is tested with all in place of any.
V2WorkflowStatus_AllFailed(tasks_status_only) ==
    IF check_all({STATUS_DONE}, tasks_status_only) THEN STATUS_DONE
    ELSE IF check_all({STATUS_PENDING}, tasks_status_only) THEN STATUS_PENDING
    ELSE IF check_all({STATUS_PENDING, STATUS_RUNNING}, tasks_status_only)
         THEN STATUS_RUNNING
    ELSE IF check_all({STATUS_FAILED}, tasks_status_only) THEN STATUS_FAILED
    ELSE STATUS_UNKNOWN

\* the if/elif chain of the v2 endpoint (is_revoked is not read)
V2WorkflowStatus(tasks_status_only) ==
    IF check_all({STATUS_DONE}, tasks_status_only) THEN STATUS_DONE
    ELSE IF check_all({STATUS_PENDING}, tasks_status_only) THEN STATUS_PENDING
    ELSE IF check_all({STATUS_PENDING, STATUS_RUNNING}, tasks_status_only)
         THEN STATUS_RUNNING
    ELSE IF check_any({STATUS_FAILED}, tasks_status_only) THEN STATUS_FAILED
    ELSE STATUS_UNKNOWN

\* tasks_status_only of the v2 endpoint
V2TasksStatusOnly(resp) ==
    [i \in DOMAIN resp.tasks |-> upper(resp.tasks[i].status)]

\* tasks_with_status of the v2 endpoint: rebuilt entries with the
\* upper-cased status
V2TasksWithStatus(resp) ==
    [i \in DOMAIN resp.tasks |->
        [name |-> resp.tasks[i].name, status |-> upper(resp.tasks[i].status)]]

\* An answer that carries no workflow: an HTTPException or an unhandled
\* exception (500).
HttpError(code) ==
    [code |-> code, has_tasks |-> FALSE, tasks |-> <<>>, status |-> None]

\* The v2 endpoint after find_one returned the workflow.
V2StatusAnswer(workflow_executed, resp, code) ==
    IF workflow_executed = None THEN HttpError(404)
    ELSE IF code # 200 THEN HttpError(500)
    \* response["tasks"]: KeyError, unhandled
    ELSE IF ~resp.has_tasks THEN HttpError(500)
    \* task.get("status").upper() on None: AttributeError, unhandled
    ELSE IF \E i \in DOMAIN resp.tasks : resp.tasks[i].status = None
         THEN HttpError(500)
    \* WorkflowInDBWithStatus(tasks=...): ValidationError, unhandled
    ELSE IF \E i \in DOMAIN resp.tasks :
               ~TaskValidates(V2TasksWithStatus(resp)[i])
         THEN HttpError(500)
    ELSE [code |-> 200, has_tasks |-> TRUE, tasks |-> V2TasksWithStatus(resp),
          status |-> V2WorkflowStatus(V2TasksStatusOnly(resp))]


(***************************************************************************)
(* Workflow documents (titan.models.workflow.WorkflowRequest, as a dict).  *)
(* A Python dict is an ordered mapping: it is modelled as the sequence of  *)
(* its entries in iteration order, each entry carrying its key.            *)
(***************************************************************************)
OpKeys == {"op_0", "op_1"}
InKeys == {"in_0", "in_1"}
OutKeys == {"out_0"}

\* m has an entry with key k
HasKey(m, k) == \E i \in DOMAIN m : m[i].key = k

\* m[k]
Get(m, k) == m[CHOOSE i \in DOMAIN m : m[i].key = k]

\* the dict has no two entries with one key
UniqueKeys(m) == \A i, j \in DOMAIN m : m[i].key = m[j].key => i = j

\* d[k] = v on a dict modelled as a function
SetItem(d, k, v) == [x \in DOMAIN d \cup {k} |-> IF x = k THEN v ELSE d[x]]

\* {}
EmptyDict == [x \in {} |-> None]

\* Display names.  Operator and connector display names differ from the
\* ids; connector names are unique within an operator (data model).
OperatorName(k) == IF k = "op_0" THEN "DemoTaskOne" ELSE "DemoTaskTwo"
OperatorModule(k) == IF k = "op_0" THEN "DemoTaskOneModule" ELSE "DemoTaskTwoModule"
InputName(k) == IF k = "in_0" THEN "InputA" ELSE "InputB"
OutputName(k) == "Output"

\* the dicts of connectors over the given entries: each key at most once
ConnectorDicts(entries) ==
    {c \in UNION {[1..n -> entries] : n \in 0..Cardinality(entries)} :
        UniqueKeys(c)}

InputDicts == ConnectorDicts({[key |-> k, name |-> InputName(k)] : k \in InKeys})

OutputDicts == ConnectorDicts({[key |-> k, name |-> OutputName(k)] : k \in OutKeys})

\* Parameter values as the document carries them: t is the Python type,
\* v the value's text.
Str(v) == [t |-> "str", v |-> v]
RawValues ==
    {Str("7"), Str("3.14"), Str("true"), Str("one"), Str("2020-01-01"),
     Str("10:30"), Str("2020-01-01 10:30:00"),
     [t |-> "int", v |-> "0"], [t |-> "NoneType", v |-> "None"]}

ParamNames == {"param0", "param1"}

ParameterDicts ==
    UNION {[1..n -> [name : ParamNames, value : RawValues]] : n \in 0..MaxParams}

LinkDicts ==
    UNION {[1..n -> [fromOperator : OpKeys, fromConnector : OutKeys,
                     toOperator : OpKeys, toConnector : InKeys]] :
             n \in 0..MaxLinks}

Operator(k, params, ins, outs) ==
    [key |-> k, name |-> OperatorName(k), module |-> OperatorModule(k),
     parameters |-> params, inputs |-> ins, outputs |-> outs]

\* operators without parameters, with every choice of connectors
WiredOperators ==
    {Operator(k, <<>>, ins, outs) :
        k \in OpKeys, ins \in InputDicts, outs \in OutputDicts}

\* operators without connectors, with the given parameters
ParameterizedOperator(k, params) == Operator(k, params, <<>>, <<>>)

\* Operator dicts without connectors: op_0 with every choice of parameters,
\* alone or beside op_1 (before or after it).
ParameterizedOperatorDicts ==
    LET others == {<<>>, <<[name |-> "param0", value |-> Str("one")]>>}
    IN  {<<ParameterizedOperator("op_0", p)>> : p \in ParameterDicts}
        \cup
        {<<ParameterizedOperator("op_0", p), ParameterizedOperator("op_1", q)>> :
            p \in ParameterDicts, q \in others}
        \cup
        {<<ParameterizedOperator("op_1", q), ParameterizedOperator("op_0", p)>> :
            p \in ParameterDicts, q \in others}

OperatorDicts(ops) ==
    {m \in UNION {[1..n -> ops] : n \in 0..Cardinality(OpKeys)} : UniqueKeys(m)}

Workflow(ops, lnks, ops_none, lnks_none) ==
    [operators |-> ops, links |-> lnks,
     operators_is_none |-> ops_none, links_is_none |-> lnks_none]

\* The documents that omit "operators" or "links": the fields default to
\* None in WorkflowRequest.
WorkflowsWithNone ==
    {Workflow(<<>>, <<>>, TRUE, TRUE),
     Workflow(<<Operator("op_0", <<>>, <<>>, <<>>)>>, <<>>, FALSE, TRUE),
     Workflow(<<>>, <<>>, TRUE, FALSE)}

(***************************************************************************)
(* strconv.convert with the library's default converters, tried in the    *)
(* order int, float, bool, time, datetime, date.  A converter either      *)
(* returns the converted value or raises ValueError.                      *)
(***************************************************************************)
ValueError == [t |-> "ValueError", v |-> ""]

convert_int(s) == IF s \in {"7"} THEN [t |-> "int", v |-> s] ELSE ValueError

convert_float(s) ==
    IF s \in {"7", "3.14"} THEN [t |-> "float", v |-> s] ELSE ValueError

convert_bool(s) ==
    IF s \in {"true"} THEN [t |-> "bool", v |-> "True"] ELSE ValueError

convert_time(s) == IF s \in {"10:30"} THEN [t |-> "time", v |-> s] ELSE ValueError

convert_datetime(s) ==
    IF s \in {"2020-01-01 10:30:00"} THEN [t |-> "datetime", v |-> s] ELSE ValueError

convert_date(s) ==
    IF s \in {"2020-01-01"} THEN [t |-> "date", v |-> s] ELSE ValueError

\* strconv.convert(s): the first converter that accepts a string decides;
\* a value that is no string, or that no converter accepts, is returned
\* as it is.  It raises nothing.
strconv_convert(value) ==
    IF value.t # "str" THEN value
    ELSE IF convert_int(value.v) # ValueError THEN convert_int(value.v)
    ELSE IF convert_float(value.v) # ValueError THEN convert_float(value.v)
    ELSE IF convert_bool(value.v) # ValueError THEN convert_bool(value.v)
    ELSE IF convert_time(value.v) # ValueError THEN convert_time(value.v)
    ELSE IF convert_datetime(value.v) # ValueError THEN convert_datetime(value.v)
    ELSE IF convert_date(value.v) # ValueError THEN convert_date(value.v)
    ELSE value

(***************************************************************************)
(* parse_to_list                                                           *)
(***************************************************************************)
\* The first loop: links[to_op_idx][to_con_idx] = (from_op_idx,
\* from_con_idx) for the first n links, in order.  The two-level
\* defaultdict is modelled as one dict keyed by the pair.
\* A plausible slip: an entry already set for the destination pair is
\* kept (setdefault), so the first link wins.
RECURSIVE LinkIndex_FirstWins(_, _)
LinkIndex_FirstWins(links, n) ==
    IF n = 0 THEN EmptyDict
    ELSE LET before == LinkIndex_FirstWins(links, n - 1)
             to == <<links[n].toOperator, links[n].toConnector>>
         IN  IF to \in DOMAIN before THEN before
             ELSE SetItem(before, to, <<links[n].fromOperator, links[n].fromConnector>>)

RECURSIVE LinkIndex(_, _)
LinkIndex(links, n) ==
    IF n = 0 THEN EmptyDict
    ELSE SetItem(LinkIndex(links, n - 1),
                 <<links[n].toOperator, links[n].toConnector>>,
                 <<links[n].fromOperator, links[n].fromConnector>>)

\* A plausible slip: the raw value is recorded, the converted one dropped.
RECURSIVE Params_Raw(_, _)
Params_Raw(parameters, n) ==
    IF n = 0 THEN EmptyDict
    ELSE SetItem(Params_Raw(parameters, n - 1),
                 parameters[n].name, parameters[n].value)

\* The params loop over the first n parameters of an operator.
RECURSIVE Params(_, _)
Params(parameters, n) ==
    IF n = 0 THEN EmptyDict
    ELSE SetItem(Params(parameters, n - 1),
                 parameters[n].name, strconv_convert(parameters[n].value))

\* A plausible slip: the source operator's and connector's ids are used
\* in place of their display names.
ResolveInput_Ids(operators, links, op_idx, in_idx) ==
    IF <<op_idx, in_idx>> \notin DOMAIN links THEN None
    ELSE LET from_op == links[<<op_idx, in_idx>>][1]
             from_conn == links[<<op_idx, in_idx>>][2]
         IN  IF ~HasKey(operators, from_op) THEN None
             ELSE IF ~HasKey(Get(operators, from_op).outputs, from_conn) THEN None
             ELSE from_op \o "." \o from_conn

\* A plausible slip: an output id absent on the source operator is not
\* noticed and the id itself is used.
ResolveInput_OutputUnchecked(operators, links, op_idx, in_idx) ==
    IF <<op_idx, in_idx>> \notin DOMAIN links THEN None
    ELSE LET from_op == links[<<op_idx, in_idx>>][1]
             from_conn == links[<<op_idx, in_idx>>][2]
         IN  IF ~HasKey(operators, from_op) THEN None
             ELSE IF ~HasKey(Get(operators, from_op).outputs, from_conn)
                  THEN Get(operators, from_op).name \o "." \o from_conn
             ELSE Get(operators, from_op).name \o "." \o
                  Get(Get(operators, from_op).outputs, from_conn).name

\* The try block of the inputs loop for one input connector: each of the
\* three lookups raises KeyError when its key is absent, and the except
\* clause turns it into None.
ResolveInput(operators, links, op_idx, in_idx) ==
    \* links[op_idx][in_idx]
    IF <<op_idx, in_idx>> \notin DOMAIN links THEN None
    ELSE LET from_op == links[<<op_idx, in_idx>>][1]
             from_conn == links[<<op_idx, in_idx>>][2]
         IN  \* workflow["operators"][from_op]
             IF ~HasKey(operators, from_op) THEN None
             \* ...["properties"]["outputs"][from_conn]
             ELSE IF ~HasKey(Get(operators, from_op).outputs, from_conn) THEN None
             ELSE Get(operators, from_op).name \o "." \o
                  Get(Get(operators, from_op).outputs, from_conn).name

\* The inputs loop over the first n input connectors of operator op.
RECURSIVE Inputs(_, _, _, _)
Inputs(operators, links, op, n) ==
    IF n = 0 THEN EmptyDict
    ELSE SetItem(Inputs(operators, links, op, n - 1),
                 op.inputs[n].name,
                 ResolveInput(operators, links, op.key, op.inputs[n].key))

\* The task appended for one operator.
TaskOf(operators, links, op) ==
    [name |-> op.name, module |-> op.module,
     params |-> Params(op.parameters, Len(op.parameters)),
     inputs |-> Inputs(operators, links, op, Len(op.inputs))]

\* A plausible slip: each task is put in front of the list.
TaskList_Prepended(w) ==
    LET links == LinkIndex(w.links, Len(w.links))
    IN  [i \in DOMAIN w.operators |->
            TaskOf(w.operators, links, w.operators[Len(w.operators) + 1 - i])]

\* The list parse_to_list returns: one task per operator, appended in the
\* iteration order of workflow["operators"].
TaskList(w) ==
    LET links == LinkIndex(w.links, Len(w.links))
    IN  [i \in DOMAIN w.operators |-> TaskOf(w.operators, links, w.operators[i])]

\* Whether parse_to_list raises: _links.values() and _operators.items()
\* raise AttributeError on None.  Every KeyError of the inputs loop is
\* caught, and strconv.convert raises nothing.
ParseRaises(w) == w.links_is_none \/ w.operators_is_none

\* The documents explored: every wiring of operators without parameters,
\* every parameter dict on one operator (beside at most one other), and
\* the documents that omit "operators" or "links".
InitCompile ==
    /\ \/ \E ops \in OperatorDicts(WiredOperators), lnks \in LinkDicts :
             workflow = Workflow(ops, lnks, FALSE, FALSE)
       \/ \E ops \in ParameterizedOperatorDicts :
             workflow = Workflow(ops, <<>>, FALSE, FALSE)
       \/ workflow \in WorkflowsWithNone
    /\ parsed = "no"
    /\ tasks = <<>>

\* parse_to_list(workflow)
parse_to_list ==
    /\ parsed = "no"
    /\ IF ParseRaises(workflow)
       THEN parsed' = "AttributeError" /\ tasks' = <<>>
       ELSE parsed' = "returned" /\ tasks' = TaskList(workflow)
    /\ UNCHANGED <<workflow, statusVars, rdfVars, serviceVars, validateVars,
                 pageVars, registerVars, queryVars>>

(***************************************************************************)
(* parse_to_rdf.  An rdflib term is a record of its kind and its text, a   *)
(* triple a tuple of three terms, a Graph the set of its triples.          *)
(***************************************************************************)
PREFIX_TITAN == "http://www.ontologies.khaos.uma.es/titan/#"
PREFIX_BIGOWL == "http://www.ontologies.khaos.uma.es/bigowl#"
PREFIX_DMOP == "http://www.e-lico.eu/ontologies/dmo/DMOP/DMOP.owl#"

\* rdflib.URIRef(s)
URIRef(s) == [kind |-> "URIRef", v |-> s]

\* rdflib.Literal(n) of a Python int: an xsd:integer literal
Literal_int(n) == [kind |-> "xsd:integer", v |-> ToString(n)]

\* rdflib.Literal(s) of a Python str: a plain literal
Literal_str(s) == [kind |-> "plain", v |-> s]

\* rdflib.RDF.type
RDF_type == URIRef("http://www.w3.org/1999/02/22-rdf-syntax-ns#type")

uriref_workflow == URIRef(PREFIX_DMOP \o "Workflow")
uriref_num_task == URIRef(PREFIX_BIGOWL \o "numTask")
uriref_has_task == URIRef(PREFIX_BIGOWL \o "hasTask")
uriref_task_has_number_outputs == URIRef(PREFIX_BIGOWL \o "numberOfOutputs")
uriref_task_has_number_inputs == URIRef(PREFIX_BIGOWL \o "numberOfInputs")
uriref_task_specifies_input_class == URIRef(PREFIX_BIGOWL \o "specifiesInputClass")
uriref_task_specifies_output_class == URIRef(PREFIX_BIGOWL \o "specifiesOutputClass")
uriref_has_task_name == URIRef(PREFIX_BIGOWL \o "hasName")
uriref_has_component == URIRef(PREFIX_BIGOWL \o "hasComponent")

\* name: the node of the workflow
WorkflowNode(id) == URIRef(PREFIX_TITAN \o "Workflow" \o id)

\* task: the node of one operator
TaskNode(op_data, id) ==
    URIRef(op_data.definition \o "-" \o id \o "-" \o op_data.key)

\* A plausible slip: the two connector counts are exchanged.
TaskTriples_CountsSwapped(op_data, id) ==
    LET name == WorkflowNode(id)
        task == TaskNode(op_data, id)
    IN  {<<name, uriref_has_task, task>>,
         <<task, uriref_has_task_name, Literal_str(op_data.name)>>,
         <<task, uriref_task_has_number_inputs, Literal_int(Len(op_data.outputs))>>,
         <<task, uriref_task_has_number_outputs, Literal_int(Len(op_data.inputs))>>,
         <<task, uriref_has_component, URIRef(op_data.definition)>>}
        \cup {<<task, uriref_task_specifies_input_class,
                URIRef(op_data.inputs[i].definition)>> : i \in DOMAIN op_data.inputs}
        \cup {<<task, uriref_task_specifies_output_class,
                URIRef(op_data.outputs[i].definition)>> : i \in DOMAIN op_data.outputs}

\* The triples one pass of the operators loop adds.
TaskTriples(op_data, id) ==
    LET name == WorkflowNode(id)
        task == TaskNode(op_data, id)
    IN  {<<name, uriref_has_task, task>>,
         <<task, uriref_has_task_name, Literal_str(op_data.name)>>,
         <<task, uriref_task_has_number_inputs, Literal_int(Len(op_data.inputs))>>,
         <<task, uriref_task_has_number_outputs, Literal_int(Len(op_data.outputs))>>,
         <<task, uriref_has_component, URIRef(op_data.definition)>>}
        \cup {<<task, uriref_task_specifies_input_class,
                URIRef(op_data.inputs[i].definition)>> : i \in DOMAIN op_data.inputs}
        \cup {<<task, uriref_task_specifies_output_class,
                URIRef(op_data.outputs[i].definition)>> : i \in DOMAIN op_data.outputs}

\* g when parse_to_rdf returns it: a Graph holds each triple once.
RdfGraph(w, id) ==
    LET name == WorkflowNode(id)
    IN  {<<name, RDF_type, uriref_workflow>>,
         <<name, uriref_num_task, Literal_int(Len(w.operators))>>}
        \cup UNION {TaskTriples(w.operators[i], id) : i \in DOMAIN w.operators}

\* op_data["definition"]["uri"] (and the same of a connector) raises when
\* there is no definition: KeyError when the key is absent, as it is in
\* the exclude_none dump of a document without it, TypeError when it is None.
LacksDefinition(entity) == entity.definition = None

\* A plausible slip: the definitions of the connectors are not required.
RdfRaises_OperatorsOnly(w) ==
    \/ w.operators_is_none
    \/ \E i \in DOMAIN w.operators : LacksDefinition(w.operators[i])

\* Whether parse_to_rdf raises: workflow["operators"] absent or None, an
\* operator without definition, a connector without definition.
RdfRaises(w) ==
    \/ w.operators_is_none
    \/ \E i \in DOMAIN w.operators :
          \/ LacksDefinition(w.operators[i])
          \/ \E j \in DOMAIN w.operators[i].inputs :
                LacksDefinition(w.operators[i].inputs[j])
          \/ \E j \in DOMAIN w.operators[i].outputs :
                LacksDefinition(w.operators[i].outputs[j])

(***************************************************************************)
(* Workflow documents with semantic definitions.                           *)
(***************************************************************************)
\* most operators of a document whose keys and URIs carry hyphens
MaxOperators == 2

\* The workflow ids: the id of the repository's test and two ids of which
\* one extends the other by a hyphenated suffix.
TestWorkflowId == "test-1-1"
HyphenWorkflowIds == {"w1", "w1-op"}
WorkflowIds == {TestWorkflowId} \cup HyphenWorkflowIds

\* Definition URIs of the repository's test, and one that extends another
\* by a hyphenated suffix.
ComponentURI(k) ==
    IF k = "op_0" THEN "https://www.w3.org/#Component0"
    ELSE "https://www.w3.org/#Component1"
DataURI == "https://www.w3.org/#Data0"
HyphenURIs == {"https://www.w3.org/#Component0", "https://www.w3.org/#Component0-w1-op"}
HyphenOpKeys == {"op_1", "op-op_1", "op-w1-op_1"}

\* an input or output connector with its definition (None: no definition)
Connector(k, name, uri) == [key |-> k, name |-> name, definition |-> uri]

DefinedInputDicts ==
    ConnectorDicts({Connector(k, InputName(k), uri) :
                       k \in InKeys, uri \in {DataURI, None}})

DefinedOutputDicts ==
    ConnectorDicts({Connector(k, OutputName(k), uri) :
                       k \in OutKeys, uri \in {DataURI, None}})

\* an operator with its definition (None: no definition)
DefinedOperator(k, uri, ins, outs) ==
    [key |-> k, name |-> OperatorName(k), module |-> OperatorModule(k),
     parameters |-> <<>>, inputs |-> ins, outputs |-> outs, definition |-> uri]

\* the operators of the test's keys, with every choice of connectors and
\* definitions
DefinedOperators ==
    UNION {{DefinedOperator(k, uri, ins, outs) :
               uri \in {ComponentURI(k), None},
               ins \in DefinedInputDicts, outs \in DefinedOutputDicts} :
           k \in OpKeys}

\* operators without connectors whose keys and URIs carry hyphens
HyphenOperators ==
    {DefinedOperator(k, uri, <<>>, <<>>) :
        k \in HyphenOpKeys, uri \in HyphenURIs \cup {None}}

HyphenOperatorDicts ==
    {m \in UNION {[1..n -> HyphenOperators] : n \in 0..MaxOperators} :
        UniqueKeys(m)}

\* The documents handed to parse_to_rdf.
InitRdf ==
    /\ \/ \E ops \in OperatorDicts(DefinedOperators) :
             /\ workflow = Workflow(ops, <<>>, FALSE, FALSE)
             /\ workflow_id = TestWorkflowId
       \/ \E ops \in HyphenOperatorDicts :
             /\ workflow = Workflow(ops, <<>>, FALSE, FALSE)
             /\ workflow_id \in HyphenWorkflowIds
       \/ /\ workflow = Workflow(<<>>, <<>>, TRUE, FALSE)
          /\ workflow_id \in WorkflowIds
    /\ exported = "no"
    /\ graph = {}
    /\ other_id = None
    /\ other_graph = {}

\* neither parse_to_list nor parse_to_rdf is called on its own
CompileOff ==
    /\ workflow = Workflow(<<>>, <<>>, TRUE, TRUE)
    /\ parsed = "idle"
    /\ tasks = <<>>

RdfIdle ==
    /\ workflow_id = None
    /\ exported = "idle"
    /\ graph = {}
    /\ other_id = None
    /\ other_graph = {}

\* parse_to_rdf(workflow, workflow_id)
parse_to_rdf ==
    /\ exported = "no"
    /\ IF RdfRaises(workflow)
       THEN exported' = "KeyError" /\ graph' = {}
       ELSE exported' = "returned" /\ graph' = RdfGraph(workflow, workflow_id)
    /\ UNCHANGED <<workflow_id, other_id, other_graph, statusVars, compileVars, serviceVars, validateVars,
                 pageVars, registerVars, queryVars>>

\* parse_to_rdf(workflow, id) once more on the document that was exported,
\* under the same or another workflow id
parse_to_rdf_again ==
    /\ exported = "returned"
    /\ other_id = None
    /\ \E id \in WorkflowIds :
          /\ other_id' = id
          /\ other_graph' = RdfGraph(workflow, id)
    /\ UNCHANGED <<workflow_id, exported, graph, statusVars, compileVars, serviceVars, validateVars,
                 pageVars, registerVars, queryVars>>

(***************************************************************************)
(* The service: the users and workflows collections of the database, the   *)
(* named graph of the triple store, and HTTP answers.                      *)
(***************************************************************************)
\* The users collection: two active users and a disabled one.
users ==
    {[username |-> "alice", disabled |-> FALSE],
     [username |-> "bob", disabled |-> FALSE],
     [username |-> "carol", disabled |-> TRUE]}

\* What a request carries as bearer token: none, a string that is no JWT
\* of this service, or a JWT of this service for the named subject.
NoToken == None
Tokens == {NoToken, "garbage", "jwt:alice", "jwt:bob", "jwt:carol", "jwt:ghost"}

\* jwt.decode(token, SECRET_KEY, ...).get("sub"); None stands for a
\* PyJWTError or a payload without subject
jwt_sub(token) ==
    CASE token = "jwt:alice" -> "alice"
      [] token = "jwt:bob" -> "bob"
      [] token = "jwt:carol" -> "carol"
      [] token = "jwt:ghost" -> "ghost"
      [] OTHER -> None

\* An answer of an endpoint.  kind tells what body holds: "error" (an
\* HTTPException or an unhandled exception, body empty), "workflow",
\* "workflows", "status" or "null".
HTTPException(code, detail) ==
    [code |-> code, detail |-> detail, kind |-> "error", body |-> <<>>]

\* an exception no handler catches: Starlette answers 500
InternalServerError == HTTPException(500, "Internal Server Error")

\* FastAPI's answer to a body that fails validation
RequestValidationError == HTTPException(422, "value_error")

Answer(code, kind, body) ==
    [code |-> code, detail |-> "", kind |-> kind, body |-> body]

\* A plausible slip: the token is optional (auto_error off) and a request
\* without token is served as the first active user.
get_current_active_user_TokenOptional(token) ==
    IF token = NoToken THEN Answer(200, "user", "alice")
    ELSE IF jwt_sub(token) = None \/ jwt_sub(token) \notin {u.username : u \in users}
    THEN HTTPException(401, "Could not validate credentials")
    ELSE IF (CHOOSE u \in users : u.username = jwt_sub(token)).disabled
    THEN HTTPException(400, "Inactive user")
    ELSE Answer(200, "user", jwt_sub(token))

\* Depends(get_current_active_user): oauth2_scheme rejects a request
\* without bearer token, get_current_user a token that does not decode to
\* a known user, get_current_active_user a disabled user.
get_current_active_user(token) ==
    IF token = NoToken THEN HTTPException(401, "Not authenticated")
    ELSE IF jwt_sub(token) = None \/ jwt_sub(token) \notin {u.username : u \in users}
    THEN HTTPException(401, "Could not validate credentials")
    ELSE IF (CHOOSE u \in users : u.username = jwt_sub(token)).disabled
    THEN HTTPException(400, "Inactive user")
    ELSE Answer(200, "user", jwt_sub(token))

\* The ids of stored workflows (uuid4().hex in insert).
StoredIds == {"0a", "0b", "0c"}

\* datetime.now().isoformat() of an earlier request and of the request served
Earlier == "t0"
Now == "t1"

\* A document of the workflows collection, and WorkflowInDB built from
\* one.  The metadata holds the author only.
WorkflowInDB(id, w, author, last_execution, created, updated) ==
    [id |-> id,
     operators |-> w.operators, operators_is_none |-> w.operators_is_none,
     links |-> w.links, links_is_none |-> w.links_is_none,
     author |-> author, executed |-> last_execution,
     created_at |-> created, updated_at |-> updated]

\* A plausible slip: the workflow is looked up by its id alone.
Found_ByIdOnly(database, username, id) == {d \in database : d.id = id}

\* db.workflow.find_one({"id": workflow_id, "metadata.author": username})
Found(database, username, id) ==
    {d \in database : d.id = id /\ d.author = username}

\* The author a submitted document may carry in its metadata: none, the
\* name of a user, a name that is no user's.
SubmittedAuthors == {None, "alice", "mallory"}

\* the document w submitted with metadata {"author": author} (no author
\* entry when author is None)
WithMetadata(w, author) ==
    [operators |-> w.operators, links |-> w.links,
     operators_is_none |-> w.operators_is_none, links_is_none |-> w.links_is_none,
     author |-> author]

\* A plausible slip: the author is set only when the submitted metadata
\* carries none (setdefault).
MetadataAuthor_SetDefault(w, username) ==
    IF w.author = None THEN username ELSE w.author

\* workflow_as_dict["metadata"]["author"] = username: the author entry of
\* the dump's metadata
MetadataAuthor(w, username) == username

\* A plausible slip: the dump carries the fields of WorkflowInDB, and the
\* last execution id is reset with every write.
SetFields_ResetsExecuted(d, w, username, created) ==
    [d EXCEPT
        !.operators = IF w.operators_is_none THEN @ ELSE w.operators,
        !.operators_is_none = IF w.operators_is_none THEN @ ELSE FALSE,
        !.links = IF w.links_is_none THEN @ ELSE w.links,
        !.links_is_none = IF w.links_is_none THEN @ ELSE FALSE,
        !.author = username,
        !.executed = None,
        !.created_at = IF created = None THEN @ ELSE created,
        !.updated_at = Now]

\* {"$set": workflow_as_dict} applied to stored document d: the dump
\* carries updated_at and metadata always, and operators, links and
\* created_at only when they are not None (exclude_none).
SetFields(d, w, username, created) ==
    [d EXCEPT
        !.operators = IF w.operators_is_none THEN @ ELSE w.operators,
        !.operators_is_none = IF w.operators_is_none THEN @ ELSE FALSE,
        !.links = IF w.links_is_none THEN @ ELSE w.links,
        !.links_is_none = IF w.links_is_none THEN @ ELSE FALSE,
        !.author = MetadataAuthor(w, username),
        !.created_at = IF created = None THEN @ ELSE created,
        !.updated_at = Now]

\* db.workflow.update_one({"id": workflow_id}, {"$set": ...}, upsert=True)
update_one(database, id, w, username, created) ==
    IF \E d \in database : d.id = id
    THEN {IF d.id = id THEN SetFields(d, w, username, created) ELSE d : d \in database}
    ELSE database \cup
         {SetFields(WorkflowInDB(id, Workflow(<<>>, <<>>, TRUE, TRUE),
                                 None, None, None, None),
                    w, username, created)}

\* What can happen to the export apart from a defective document:
\* nothing; serialize raises; the store cannot be reached; the store
\* answers with an HTTP error (Virtuoso.update returns without raising);
\* the store runs the update but its answer cannot be read (req.json()
\* raises); an exception constructed without arguments is raised.
ExportFailures == {"none", "serialize", "connect", "rejected", "unreadable", "no_args"}

\* One entry of the side effects of a request, in the order they happen.
Effect(op, ok, data) == [op |-> op, ok |-> ok, data |-> data]

\* The try block of upsert: the exception caught ("none" when there is
\* none), whether store.update was called, whether the store took the
\* triples, and the triples of the INSERT DATA query.
Export(w, id, failure) ==
    IF RdfRaises(w)
    THEN [raised |-> "KeyError", called |-> FALSE, stored |-> FALSE, sent |-> {}]
    ELSE IF failure = "serialize"
    THEN [raised |-> "Exception", called |-> FALSE, stored |-> FALSE, sent |-> {}]
    ELSE IF failure = "no_args"
    THEN [raised |-> "Exception()", called |-> FALSE, stored |-> FALSE, sent |-> {}]
    ELSE [raised |-> CASE failure = "connect" -> "ConnectError"
                       [] failure = "unreadable" -> "JSONDecodeError"
                       [] OTHER -> "none",
          called |-> TRUE,
          stored |-> failure \in {"none", "unreadable"},
          sent |-> RdfGraph(w, id)]

\* the triples of a document's export: none when parse_to_rdf raises
ExportedGraph(w, id) == IF RdfRaises(w) THEN {} ELSE RdfGraph(w, id)

\* WorkflowManager.upsert: the state after it and what it returns.
\* raises tells whether an exception leaves upsert: the database write
\* failed, or the except clause itself raised IndexError on err.args[0].
upsert(database, triples, username, id, w, created, failure, db_up) ==
    IF ~db_up
    THEN [db |-> database, store |-> triples, raises |-> TRUE, export |-> "not run",
          effects |-> <<Effect("db.update_one", FALSE, {})>>,
          returns |-> WorkflowInDB(id, w, MetadataAuthor(w, username), None, created, Now)]
    ELSE LET e == Export(w, id, failure)
         IN  [db |-> update_one(database, id, w, username, created),
              store |-> IF e.stored THEN triples \cup e.sent ELSE triples,
              raises |-> e.raised = "Exception()",
              export |-> e.raised,
              effects |-> <<Effect("db.update_one", TRUE, {})>> \o
                          (IF e.called
                           THEN <<Effect("store.update", e.stored, e.sent)>>
                           ELSE <<>>),
              returns |-> WorkflowInDB(id, w, MetadataAuthor(w, username), None, created, Now)]

(***************************************************************************)
(* The v2 workflow endpoints (titan/routes/v2/workflow.py).               *)
(***************************************************************************)
\* The documents of the requests: the two operators of the test with and
\* without definitions, linked or not, and documents that omit
\* "operators" or "links".
TestOperator0 ==
    DefinedOperator("op_0", ComponentURI("op_0"), <<>>,
                    <<Connector("out_0", OutputName("out_0"), DataURI)>>)

TestOperator1(uri, in_uri) ==
    DefinedOperator("op_1", uri, <<Connector("in_0", InputName("in_0"), in_uri)>>, <<>>)

TestLinks ==
    <<[fromOperator |-> "op_0", fromConnector |-> "out_0",
       toOperator |-> "op_1", toConnector |-> "in_0"]>>

ServiceOperatorDicts ==
    {<<>>, <<TestOperator0>>, <<TestOperator1(None, DataURI), TestOperator0>>}
    \cup {<<TestOperator0, TestOperator1(uri, in_uri)>> :
             uri \in {ComponentURI("op_1"), None}, in_uri \in {DataURI, None}}

ServiceLinkDicts == {<<>>, TestLinks}

\* most page_size and page_num of a listing request
MaxPage == 2

\* WorkflowRequest(): the body of /new when the request has none
DefaultWorkflowRequest == Workflow(<<>>, <<>>, TRUE, TRUE)

ServiceDocuments ==
    {Workflow(ops, lnks, FALSE, FALSE) :
        ops \in ServiceOperatorDicts, lnks \in ServiceLinkDicts}
    \cup {Workflow(<<>>, lnks, TRUE, FALSE) : lnks \in ServiceLinkDicts}
    \cup {Workflow(ops, <<>>, FALSE, TRUE) : ops \in ServiceOperatorDicts}
    \cup {DefaultWorkflowRequest}

\* What the engine does with a request: it answers 200 with an execution
\* id, 200 without id, an HTTP error, or it cannot be reached.
EngineAnswers == {"ok", "no_id", "error", "unreachable"}

\* The engine's status reports used for the v2 status endpoint.
StatusReports ==
    {EmptyResponse,
     [has_tasks |-> TRUE, is_revoked |-> FALSE,
      tasks |-> <<[name |-> "task", status |-> STATUS_DONE]>>],
     [has_tasks |-> TRUE, is_revoked |-> TRUE,
      tasks |-> <<[name |-> "task", status |-> STATUS_PENDING],
                  [name |-> "task", status |-> STATUS_RUNNING]>>]}

\* the request as the endpoint receives it
Request(endpoint, token, id, body, document, page_size, page_num) ==
    [endpoint |-> endpoint, token |-> token, workflow_id |-> id, body |-> body,
     document |-> document, page_size |-> page_size, page_num |-> page_num]

NoRequest == Request("none", NoToken, None, "none", DefaultWorkflowRequest, 0, 0)

\* the state after a request and its answer
Outcome(database, triples, effs, exp, ans) ==
    [db |-> database, store |-> triples, effects |-> effs, export |-> exp,
     answer |-> ans]

\* round(total_count / page_size): Python rounds a tie to the even integer
round(total_count, page_size) ==
    LET q == total_count \div page_size
        r == total_count % page_size
    IN  IF 2 * r < page_size THEN q
        ELSE IF 2 * r > page_size THEN q + 1
        ELSE IF q % 2 = 0 THEN q ELSE q + 1

\* the order of the timestamps (a document without one sorts first)
Rank(t) == CASE t = Now -> 2 [] t = Earlier -> 1 [] OTHER -> 0

\* cursor.sort([("updated_at", -1)]) over the documents found
SortedByUpdatedAt(found) ==
    CHOOSE s \in [1..Cardinality(found) -> found] :
        /\ \A i, j \in DOMAIN s : i # j => s[i] # s[j]
        /\ \A i, j \in DOMAIN s :
              i < j => Rank(s[i].updated_at) >= Rank(s[j].updated_at)

\* POST /new after its dependencies: WorkflowManager.insert under a new id
new(database, triples, username, id, w, failure, db_up) ==
    LET r == upsert(database, triples, username, id, w, Now, failure, db_up)
    IN  IF r.raises
        THEN Outcome(r.db, r.store, r.effects, r.export, InternalServerError)
        ELSE Outcome(r.db, r.store, r.effects, r.export,
                     Answer(200, "workflow", r.returns))

\* POST /update after its dependencies
update(database, triples, username, id, w, failure, db_up) ==
    IF Found(database, username, id) = {}
    THEN Outcome(database, triples, <<>>, "not run",
                 HTTPException(404, "Workflow " \o id \o " not found"))
    ELSE LET r == upsert(database, triples, username, id, w, None, failure, db_up)
         IN  IF r.raises
             THEN Outcome(r.db, r.store, r.effects, r.export, InternalServerError)
             ELSE Outcome(r.db, r.store, r.effects, r.export,
                          Answer(200, "workflow", r.returns))

\* GET /get after its dependencies
get(database, triples, username, id) ==
    IF Found(database, username, id) = {}
    THEN Outcome(database, triples, <<>>, "not run",
                 HTTPException(404, "Workflow " \o id \o " not found"))
    ELSE Outcome(database, triples, <<>>, "not run",
                 Answer(200, "workflow", CHOOSE d \in Found(database, username, id) : TRUE))

\* GET /get/all after its dependencies: WorkflowManager.find and the
\* pagination of the answer
get_all(database, triples, username, page_size, page_num) ==
    LET found == {d \in database : d.author = username}
        sorted == SortedByUpdatedAt(found)
        skips == page_size * (page_num - 1)
        workflows == SubSeq(sorted, skips + 1,
                            IF skips + page_size < Len(sorted)
                            THEN skips + page_size ELSE Len(sorted))
        total_count == Cardinality(found)
    IN  Outcome(database, triples, <<>>, "not run",
                Answer(200, "workflows",
                       [workflows |-> workflows,
                        pagination |-> [page_size |-> page_size,
                                        page_num |-> page_num,
                                        page_count |-> round(total_count, page_size),
                                        total_count |-> total_count]]))

\* the stored document as parse_to_list reads it
AsWorkflow(d) ==
    Workflow(d.operators, d.links, d.operators_is_none, d.links_is_none)

\* db.workflow.update_one({"id": workflow.id}, {"$set": {"executed": ...}})
set_executed(database, id, execution_id) ==
    {IF d.id = id THEN [d EXCEPT !.executed = execution_id] ELSE d : d \in database}

\* POST /run after its dependencies: WorkflowManager.execute, then the
\* stored workflow is read again and returned.
run(database, triples, username, id, engine, db_up) ==
    IF Found(database, username, id) = {}
    THEN Outcome(database, triples, <<>>, "not run",
                 HTTPException(404, "Workflow '" \o id \o "' not found"))
    ELSE LET w == CHOOSE d \in Found(database, username, id) : TRUE
             post == Effect("engine.post", engine \in {"ok", "no_id"}, "/api/v2/workflow/run")
         IN  \* parse_to_list raises AttributeError, which run does not catch
             IF ParseRaises(AsWorkflow(w))
             THEN Outcome(database, triples, <<>>, "not run", InternalServerError)
             ELSE IF engine = "unreachable"
             THEN Outcome(database, triples, <<post>>, "not run", InternalServerError)
             \* req["id"] raises KeyError, which run turns into a 500
             ELSE IF engine = "no_id"
             THEN Outcome(database, triples, <<post>>, "not run",
                          HTTPException(500, "Missing key 'id'"))
             ELSE IF engine = "error"
             THEN Outcome(database, triples, <<post>>, "not run",
                          Answer(200, "workflow", w))
             ELSE IF ~db_up
             THEN Outcome(database, triples,
                          <<post, Effect("db.update_one", FALSE, {})>>,
                          "not run", InternalServerError)
             ELSE Outcome(set_executed(database, id, "exec-2"), triples,
                          <<post, Effect("db.update_one", TRUE, {})>>, "not run",
                          Answer(200, "workflow", [w EXCEPT !.executed = "exec-2"]))

\* A plausible slip: revoke does not look at workflow.executed.
revoke_NoExecutedCheck(database, triples, username, id, engine) ==
    IF Found(database, username, id) = {}
    THEN Outcome(database, triples, <<>>, "not run",
                 HTTPException(404, "Workflow " \o id \o " not found"))
    ELSE LET post == Effect("engine.post", engine \in {"ok", "no_id"},
                            "/api/v2/workflow/revoke")
         IN  IF engine = "unreachable"
             THEN Outcome(database, triples, <<post>>, "not run", InternalServerError)
             ELSE Outcome(database, triples, <<post>>, "not run",
                          Answer(200, "null", <<>>))

\* POST /revoke after its dependencies; the v3 endpoint runs the same
\* statements after it looked the username up
revoke(database, triples, username, id, engine) ==
    IF Found(database, username, id) = {}
    THEN Outcome(database, triples, <<>>, "not run",
                 HTTPException(404, "Workflow " \o id \o " not found"))
    ELSE LET w == CHOOSE d \in Found(database, username, id) : TRUE
             post == Effect("engine.post", engine \in {"ok", "no_id"},
                            "/api/v2/workflow/revoke")
         IN  IF w.executed = None
             THEN Outcome(database, triples, <<>>, "not run",
                          HTTPException(404, "Workflow has not been executed yet"))
             ELSE IF engine = "unreachable"
             THEN Outcome(database, triples, <<post>>, "not run", InternalServerError)
             ELSE Outcome(database, triples, <<post>>, "not run",
                          Answer(200, "null", <<>>))

\* GET /status after its dependencies
status(database, triples, username, id, engine, report) ==
    IF Found(database, username, id) = {}
    THEN Outcome(database, triples, <<>>, "not run",
                 HTTPException(404, "Workflow " \o id \o " not found"))
    ELSE LET w == CHOOSE d \in Found(database, username, id) : TRUE
             fetch == Effect("engine.get", engine \in {"ok", "no_id"},
                             "/api/v2/workflow/status")
             code == IF engine = "error" THEN 500 ELSE 200
             resp == IF engine = "error" THEN EmptyResponse ELSE report
             a == V2StatusAnswer(w.executed, resp, code)
         IN  IF w.executed = None
             THEN Outcome(database, triples, <<>>, "not run",
                          HTTPException(404, "Workflow has not been executed yet"))
             ELSE IF engine = "unreachable"
             THEN Outcome(database, triples, <<fetch>>, "not run", InternalServerError)
             ELSE IF code # 200
             THEN Outcome(database, triples, <<fetch>>, "not run",
                          HTTPException(500, "Could not retrieve workflow status"))
             ELSE IF a.code # 200
             THEN Outcome(database, triples, <<fetch>>, "not run", InternalServerError)
             ELSE Outcome(database, triples, <<fetch>>, "not run",
                          Answer(200, "status", [workflow |-> w, tasks |-> a.tasks,
                                                 status |-> a.status]))

(***************************************************************************)
(* The requests.  FastAPI solves the dependencies of an endpoint first     *)
(* (get_current_active_user raises its HTTPException there), validates    *)
(* the body next, and calls the endpoint function last.                    *)
(***************************************************************************)
\* the request is answered before the endpoint function runs
Rejected(ans) == Outcome(db, store, <<>>, "not run", ans)

Serve(req, o) ==
    /\ request' = req
    /\ db' = o.db
    /\ store' = o.store
    /\ effects' = o.effects
    /\ export' = o.export
    /\ answer' = o.answer
    /\ UNCHANGED <<statusVars, compileVars, rdfVars, validateVars,
                 pageVars, registerVars, queryVars>>

\* the bodies of a POST /new or /update request: a document, or a JSON
\* value that WorkflowRequest rejects
Bodies == {"document", "invalid"}

\* POST /api/v2/workflow/new
v2_new ==
    /\ request = NoRequest
    /\ \E token \in Tokens, body \in Bodies \cup {"none"}, w \in ServiceDocuments,
       author \in SubmittedAuthors, id \in StoredIds \ {d.id : d \in db},
       failure \in ExportFailures, db_up \in BOOLEAN :
        /\ body # "document" => w = DefaultWorkflowRequest /\ author = None
        /\ LET user == get_current_active_user(token)
               doc == WithMetadata(w, author)
           IN  Serve(Request("new", token, None, body, doc, 0, 0),
                     IF user.code # 200 THEN Rejected(user)
                     ELSE IF body = "invalid" THEN Rejected(RequestValidationError)
                     ELSE new(db, store, user.body, id, doc, failure, db_up))

\* POST /api/v2/workflow/update
v2_update ==
    /\ request = NoRequest
    /\ \E token \in Tokens, body \in Bodies, w \in ServiceDocuments,
       author \in SubmittedAuthors, id \in StoredIds,
       failure \in ExportFailures, db_up \in BOOLEAN :
        /\ body # "document" => w = DefaultWorkflowRequest /\ author = None
        /\ LET user == get_current_active_user(token)
               doc == WithMetadata(w, author)
           IN  Serve(Request("update", token, id, body, doc, 0, 0),
                     IF user.code # 200 THEN Rejected(user)
                     ELSE IF body = "invalid" THEN Rejected(RequestValidationError)
                     ELSE update(db, store, user.body, id, doc, failure, db_up))

\* GET /api/v2/workflow/get
v2_get ==
    /\ request = NoRequest
    /\ \E token \in Tokens, id \in StoredIds :
        LET user == get_current_active_user(token)
        IN  Serve(Request("get", token, id, "none", DefaultWorkflowRequest, 0, 0),
                  IF user.code # 200 THEN Rejected(user)
                  ELSE get(db, store, user.body, id))

\* GET /api/v2/workflow/get/all
v2_get_all ==
    /\ request = NoRequest
    /\ \E token \in Tokens, page_size \in 1..MaxPage, page_num \in 1..MaxPage :
        LET user == get_current_active_user(token)
        IN  Serve(Request("get_all", token, None, "none", DefaultWorkflowRequest,
                          page_size, page_num),
                  IF user.code # 200 THEN Rejected(user)
                  ELSE get_all(db, store, user.body, page_size, page_num))

\* POST /api/v2/workflow/run
v2_run ==
    /\ request = NoRequest
    /\ \E token \in Tokens, id \in StoredIds, engine \in EngineAnswers, db_up \in BOOLEAN :
        LET user == get_current_active_user(token)
        IN  Serve(Request("run", token, id, "none", DefaultWorkflowRequest, 0, 0),
                  IF user.code # 200 THEN Rejected(user)
                  ELSE run(db, store, user.body, id, engine, db_up))

\* POST /api/v2/workflow/revoke
v2_revoke ==
    /\ request = NoRequest
    /\ \E token \in Tokens, id \in StoredIds, engine \in EngineAnswers :
        LET user == get_current_active_user(token)
        IN  Serve(Request("revoke", token, id, "none", DefaultWorkflowRequest, 0, 0),
                  IF user.code # 200 THEN Rejected(user)
                  ELSE revoke(db, store, user.body, id, engine))

\* GET /api/v2/workflow/status
v2_status ==
    /\ request = NoRequest
    /\ \E token \in Tokens, id \in StoredIds, engine \in EngineAnswers,
       report \in StatusReports :
        LET user == get_current_active_user(token)
        IN  Serve(Request("status", token, id, "none", DefaultWorkflowRequest, 0, 0),
                  IF user.code # 200 THEN Rejected(user)
                  ELSE status(db, store, user.body, id, engine, report))

\* the usernames a v3 request may name
Usernames == {"alice", "bob", "carol", "ghost"}

\* the request of a v3 endpoint: the user is a query parameter
V3Request(endpoint, username, id) ==
    [endpoint |-> endpoint, token |-> NoToken, workflow_id |-> id, body |-> "none",
     document |-> DefaultWorkflowRequest, page_size |-> 0, page_num |-> 0,
     username |-> username]

\* POST /api/v3/workflow/revoke
v3_revoke ==
    /\ request = NoRequest
    /\ \E username \in Usernames, id \in StoredIds, engine \in EngineAnswers :
        Serve(V3Request("v3_revoke", username, id),
              IF username \notin {u.username : u \in users}
              THEN Rejected(HTTPException(404, "Username not found"))
              ELSE revoke(db, store, username, id, engine))

\* The stored workflows a request may meet: none, one of alice (written by
\* an earlier /new or /update, executed or not), and one of bob beside it.
StoredDocuments ==
    {Workflow(<<TestOperator0, TestOperator1(ComponentURI("op_1"), DataURI)>>,
              TestLinks, FALSE, FALSE),
     Workflow(<<TestOperator0, TestOperator1(None, DataURI)>>, <<>>, FALSE, FALSE),
     DefaultWorkflowRequest}

WorkflowsOfAlice ==
    {WorkflowInDB("0a", w, "alice", e, Earlier, Earlier) :
        w \in StoredDocuments, e \in {None, "exec-1"}}

WorkflowOfBob ==
    WorkflowInDB("0b", Workflow(<<TestOperator0>>, <<>>, FALSE, FALSE),
                 "bob", "exec-1", Earlier, Earlier)

\* the named graph after the exports of the stored workflows
StoreOf(database) == UNION {ExportedGraph(AsWorkflow(d), d.id) : d \in database}

InitService ==
    /\ \/ db = {}
       \/ \E a \in WorkflowsOfAlice : db = {a} \/ db = {a, WorkflowOfBob}
    /\ store = StoreOf(db)
    /\ request = NoRequest
    /\ answer = Answer(0, "none", <<>>)
    /\ effects = <<>>
    /\ export = "not run"

ServiceIdle ==
    /\ db = {}
    /\ store = {}
    /\ request = Request("idle", NoToken, None, "none", DefaultWorkflowRequest, 0, 0)
    /\ answer = Answer(0, "none", <<>>)
    /\ effects = <<>>
    /\ export = "not run"

NextService ==
    \/ v2_new \/ v2_update \/ v2_get \/ v2_get_all \/ v2_run \/ v2_revoke \/ v2_status
    \/ v3_revoke

(***************************************************************************)
(* Validation and dump of an inbound document: a WorkflowRequest built    *)
(* from the body, then .dict(exclude_none=True), as upsert stores it. Every *)
(* entity carries, beside its recognized fields, the list of its           *)
(* unrecognized fields.                                                    *)
(***************************************************************************)
\* class Config: extra = "allow" of the models; WorkflowRequest declares no
\* Config, and pydantic then ignores unrecognized fields.
ExtraPolicy(model) == IF model = "WorkflowRequest" THEN "ignore" ELSE "allow"

\* The unrecognized fields an inbound entity may carry: none, one with a
\* value, one whose value is null.
ExtraFields ==
    {<<>>, <<[key |-> "note", value |-> "x"]>>, <<[key |-> "note", value |-> None]>>}

\* the entities of the inbound document
Entities ==
    {"workflow", "operator", "operator_properties", "connector",
     "connector_properties", "parameter", "parameter_properties", "definition",
     "link"}

\* The inbound document with extra fields e[entity] on its entities: one
\* operator with one input connector and one parameter, and one link.
InboundDocument(e) ==
    [extra |-> e["workflow"],
     operators |->
        <<[key |-> "op_0", extra |-> e["operator"],
           properties |->
              [name |-> OperatorName("op_0"), module |-> OperatorModule("op_0"),
               extra |-> e["operator_properties"],
               inputs |->
                  <<[key |-> "in_0", extra |-> e["connector"],
                     properties |-> [name |-> InputName("in_0"),
                                     extra |-> e["connector_properties"]],
                     definition |-> [uri |-> DataURI, extra |-> <<>>]]>>],
           parameters |->
              <<[key |-> "param0", extra |-> e["parameter"],
                 properties |-> [name |-> "param0", value |-> Str("one"),
                                 extra |-> e["parameter_properties"]]]>>,
           definition |-> [uri |-> ComponentURI("op_0"), extra |-> e["definition"]]]>>,
     links |->
        <<[key |-> "link_0", fromOperator |-> "op_0", fromConnector |-> "out_0",
           toOperator |-> "op_0", toConnector |-> "in_0", extra |-> e["link"]]>>]

\* a model built from an entity: the unrecognized fields the model keeps
Validated(model, extra) == IF ExtraPolicy(model) = "allow" THEN extra ELSE <<>>

\* .dict(exclude_none=True): the attributes of a model whose value is
\* None are left out, unrecognized ones included
Dumped(extra) == SelectSeq(extra, LAMBDA f : f.value # None)

\* what validation and dump leave of the unrecognized fields of an entity
Kept(model, extra) == Dumped(Validated(model, extra))

\* the WorkflowRequest of the body, then .dict(exclude_none=True)
WorkflowRequest_dict(body) ==
    [extra |-> Kept("WorkflowRequest", body.extra),
     operators |->
        [i \in DOMAIN body.operators |->
            LET op == body.operators[i]
            IN  [op EXCEPT
                   !.extra = Kept("Operator", @),
                   !.properties =
                      [@ EXCEPT
                         !.extra = Kept("OperatorProperties", @),
                         !.inputs =
                            [j \in DOMAIN op.properties.inputs |->
                                [op.properties.inputs[j] EXCEPT
                                   !.extra = Kept("InputOutput", @),
                                   !.properties.extra = Kept("Properties", @),
                                   !.definition.extra = Kept("Definition", @)]]],
                   !.parameters =
                      [j \in DOMAIN op.parameters |->
                          [op.parameters[j] EXCEPT
                             !.extra = Kept("OperatorParameters", @),
                             !.properties.extra = Kept("ParameterProperties", @)]],
                   !.definition.extra = Kept("Definition", @)]],
     links |->
        [i \in DOMAIN body.links |->
            [body.links[i] EXCEPT !.extra = Kept("Link", @)]]]

InitValidate ==
    /\ \E e \in [Entities -> ExtraFields] : inbound = InboundDocument(e)
    /\ dumped = InboundDocument([x \in Entities |-> <<>>])
    /\ validation = "no"

ValidateIdle ==
    /\ inbound = InboundDocument([x \in Entities |-> <<>>])
    /\ dumped = InboundDocument([x \in Entities |-> <<>>])
    /\ validation = "idle"

\* workflow.dict(exclude_none=True) of the validated body
validate_and_dump ==
    /\ validation = "no"
    /\ validation' = "dumped"
    /\ dumped' = WorkflowRequest_dict(inbound)
    /\ UNCHANGED <<inbound, statusVars, compileVars, rdfVars, serviceVars,
                 pageVars, registerVars, queryVars>>

(***************************************************************************)
(* The loop of the v3 status endpoints over the workflows found            *)
(* (titan/routes/v3/workflow.py, status).                                  *)
(***************************************************************************)
\* most workflows of a page
MaxWorkflows == 3

\* A workflow found together with what the engine will answer to its
\* status request: it was never executed; the engine answers with an HTTP
\* error; the engine cannot be reached; the report has no "tasks"; an
\* entry of the report names no state; and three well-formed reports.
FoundWorkflow(id, last_execution, engine, report) ==
    [id |-> id, executed |-> last_execution, engine |-> engine, report |-> report]

ReportOf(statuses, is_revoked) ==
    [has_tasks |-> TRUE, is_revoked |-> is_revoked,
     tasks |-> [i \in DOMAIN statuses |-> [name |-> "task", status |-> statuses[i]]]]

FoundKinds ==
    {[executed |-> None, engine |-> "ok", report |-> EmptyResponse],
     [executed |-> "exec-1", engine |-> "error", report |-> EmptyResponse],
     [executed |-> "exec-1", engine |-> "unreachable", report |-> EmptyResponse],
     [executed |-> "exec-1", engine |-> "ok", report |-> EmptyResponse],
     [executed |-> "exec-1", engine |-> "ok",
      report |-> ReportOf(<<STATUS_DONE, "bogus">>, FALSE)],
     [executed |-> "exec-1", engine |-> "ok", report |-> ReportOf(<<STATUS_DONE>>, FALSE)],
     [executed |-> "exec-1", engine |-> "ok",
      report |-> ReportOf(<<STATUS_RUNNING, STATUS_PENDING>>, FALSE)],
     [executed |-> "exec-1", engine |-> "ok",
      report |-> ReportOf(<<STATUS_FAILED>>, TRUE)]}

\* the id of the i-th workflow found
PageId(i) == "w" \o ToString(i)

\* status_code of WorkflowManager.status; 0 stands for the exception of a
\* request that could not be sent
EngineStatusCode(engine) ==
    CASE engine = "ok" -> 200 [] engine = "error" -> 500 [] OTHER -> 0

\* response of WorkflowManager.status: {} unless the engine answered 200
EngineResponse(w) == IF w.engine = "ok" THEN w.report ELSE EmptyResponse

\* A plausible slip: the try block has no except clause, and an exception
\* raised for one workflow leaves the endpoint.
V3Propagates_Unhandled(w) ==
    V3Raises(w.executed, EngineResponse(w), EngineStatusCode(w.engine))

\* except Exception: whether an exception raised in the try block for
\* workflow w leaves the loop
V3Propagates(w) == FALSE

\* workflow_with_status appended for workflow w
V3Entry(w) ==
    LET r == V3WorkflowWithStatus(w.executed, EngineResponse(w),
                                  EngineStatusCode(w.engine))
    IN  [id |-> w.id, has_tasks |-> r.has_tasks, tasks |-> r.tasks,
         status |-> r.status]

NoPageAnswer == [code |-> 0, workflows |-> <<>>]

InitPage ==
    /\ \E n \in 0..MaxWorkflows :
       \E kinds \in [1..n -> FoundKinds] :
          page = [i \in 1..n |->
                     FoundWorkflow(PageId(i), kinds[i].executed, kinds[i].engine,
                                   kinds[i].report)]
    /\ pos = 0
    /\ workflows_with_status = <<>>
    /\ engine_calls = <<>>
    /\ page_answer = NoPageAnswer

PageIdle ==
    /\ page = <<>>
    /\ pos = -1
    /\ workflows_with_status = <<>>
    /\ engine_calls = <<>>
    /\ page_answer = NoPageAnswer

\* WorkflowManager.find returned: 404 when nothing was found, otherwise
\* the loop starts
v3_status_find ==
    /\ pos = 0
    /\ IF page = <<>>
       THEN /\ page_answer' = [code |-> 404, workflows |-> <<>>]
            /\ pos' = Len(page) + 2
       ELSE /\ pos' = 1
            /\ UNCHANGED page_answer
    /\ UNCHANGED <<page, workflows_with_status, engine_calls, statusVars,
                   compileVars, rdfVars, serviceVars, validateVars,
                   registerVars, queryVars>>

\* one pass of "for workflow in workflows"
v3_status_loop ==
    /\ pos \in DOMAIN page
    /\ LET w == page[pos]
       IN  \* the assert on workflow.executed comes before the engine request
           /\ engine_calls' =
                 IF w.executed = None THEN engine_calls
                 ELSE Append(engine_calls, [id |-> w.id, execution |-> w.executed])
           /\ IF V3Propagates(w)
              THEN /\ page_answer' = [code |-> 500, workflows |-> <<>>]
                   /\ pos' = Len(page) + 2
                   /\ UNCHANGED workflows_with_status
              ELSE /\ workflows_with_status' = Append(workflows_with_status, V3Entry(w))
                   /\ pos' = pos + 1
                   /\ UNCHANGED page_answer
    /\ UNCHANGED <<page, statusVars, compileVars, rdfVars, serviceVars,
                   validateVars, registerVars, queryVars>>

\* return WorkflowStatusSearchResult(workflows=workflows_with_status, ...)
v3_status_return ==
    /\ pos = Len(page) + 1
    /\ pos' = Len(page) + 2
    /\ page_answer' = [code |-> 200, workflows |-> workflows_with_status]
    /\ UNCHANGED <<page, workflows_with_status, engine_calls, statusVars,
                   compileVars, rdfVars, serviceVars, validateVars,
                   registerVars, queryVars>>

NextPage == v3_status_find \/ v3_status_loop \/ v3_status_return

(***************************************************************************)
(* Concurrent register requests (titan/routes/v2/user.py,                  *)
(* register_to_system).  A request runs up to each await and is resumed    *)
(* after the database operation it awaits; requests interleave between.    *)
(***************************************************************************)
\* most register requests in flight
MaxRegistrations == 2

RegisterUsernames == {"alice", "dave"}
RegisterEmails == {"alice@uma.es", "dave@uma.es"}

\* a document of the users collection; oid stands for its _id
Account(oid, username, email) == [oid |-> oid, username |-> username, email |-> email]

\* one register request: where it is, what it carries, what it answered
Registration(pc, username, email, code, detail) ==
    [pc |-> pc, username |-> username, email |-> email, code |-> code,
     detail |-> detail]

InitRegister ==
    /\ accounts \in {{}, {Account(0, "alice", "alice@uma.es")}}
    /\ \E n \in 1..MaxRegistrations :
       \E names \in [1..n -> RegisterUsernames], emails \in [1..n -> RegisterEmails] :
          registration =
             [r \in 1..n |-> Registration("start", names[r], emails[r], 0, "")]

RegisterIdle ==
    /\ accounts = {}
    /\ registration = <<>>

\* user_by_email = await get_user_by_email(db, user.email), and the check
register_check_email ==
    \E r \in DOMAIN registration :
        /\ registration[r].pc = "start"
        /\ registration' =
              [registration EXCEPT ![r] =
                  IF \E a \in accounts : a.email = @.email
                  THEN [@ EXCEPT !.pc = "done", !.code = 409,
                                 !.detail = "Email already in use"]
                  ELSE [@ EXCEPT !.pc = "email_free"]]
        /\ UNCHANGED <<accounts, statusVars, compileVars, rdfVars, serviceVars,
                       validateVars, pageVars, queryVars>>

\* user_by_username = await get_user_by_username(db, user.username), and
\* the check
register_check_username ==
    \E r \in DOMAIN registration :
        /\ registration[r].pc = "email_free"
        /\ registration' =
              [registration EXCEPT ![r] =
                  IF \E a \in accounts : a.username = @.username
                  THEN [@ EXCEPT !.pc = "done", !.code = 409,
                                 !.detail = "User already in use"]
                  ELSE [@ EXCEPT !.pc = "username_free"]]
        /\ UNCHANGED <<accounts, statusVars, compileVars, rdfVars, serviceVars,
                       validateVars, pageVars, queryVars>>

\* user_in_db = await register_user(db, user): db.users.insert_one
register_user ==
    \E r \in DOMAIN registration :
        /\ registration[r].pc = "username_free"
        /\ accounts' = accounts \cup
              {Account(r, registration[r].username, registration[r].email)}
        /\ registration' =
              [registration EXCEPT ![r] = [@ EXCEPT !.pc = "done", !.code = 200]]
        /\ UNCHANGED <<statusVars, compileVars, rdfVars, serviceVars,
                       validateVars, pageVars, queryVars>>

NextRegister == register_check_email \/ register_check_username \/ register_user

(***************************************************************************)
(* Concurrent query() calls on the Virtuoso instance the semantic routes   *)
(* share (titan/semantic/repository.py).  A call runs from                 *)
(* _add_parameter to the request httpx builds without suspending, and is   *)
(* resumed when the answer arrives or the request fails.                   *)
(***************************************************************************)
\* most query() calls in flight
MaxCalls == 3

\* del d[k] guarded by except KeyError
RemoveItem(d, k) == [x \in DOMAIN d \ {k} |-> d[x]]

\* self.parameters after _setup_request
ConstructionParameters ==
    SetItem(SetItem(EmptyDict, "default-graph-uri", "http://graph"),
            "User-Agent", "salon")

\* the query string of call c
QueryString(c) == "SELECT " \o ToString(c)

\* How a request ends: the store answers with bindings; it answers with an
\* HTTP error; its answer is no JSON or has no bindings (req.json() or
\* result["results"]["bindings"] raises); the request itself raises
\* (connection failure, timeout).
QueryOutcomes == {"ok", "http_error", "unreadable", "unreachable"}

QueryCall(pc, query_string, sent) ==
    [pc |-> pc, query_string |-> query_string, sent |-> sent]

InitQuery ==
    /\ virtuoso_parameters = ConstructionParameters
    /\ \E n \in 1..MaxCalls :
          queries = [c \in 1..n |-> QueryCall("start", QueryString(c), None)]

QueryIdle ==
    /\ virtuoso_parameters = <<>>
    /\ queries = <<>>

\* self._add_parameter("query", query_string); req = await self._get():
\* the request is built from self.parameters
query_get ==
    \E c \in DOMAIN queries :
        /\ queries[c].pc = "start"
        /\ virtuoso_parameters' =
              SetItem(virtuoso_parameters, "query", queries[c].query_string)
        /\ queries' = [queries EXCEPT ![c] =
                          [@ EXCEPT !.pc = "awaiting",
                                    !.sent = virtuoso_parameters'["query"]]]
        /\ UNCHANGED <<statusVars, compileVars, rdfVars, serviceVars,
                       validateVars, pageVars, registerVars>>

\* the answer arrived and was read: self._remove_parameter("query")
query_return ==
    \E c \in DOMAIN queries, outcome \in {"ok", "http_error"} :
        /\ queries[c].pc = "awaiting"
        /\ virtuoso_parameters' = RemoveItem(virtuoso_parameters, "query")
        /\ queries' = [queries EXCEPT ![c] = [@ EXCEPT !.pc = "returned"]]
        /\ UNCHANGED <<statusVars, compileVars, rdfVars, serviceVars,
                       validateVars, pageVars, registerVars>>

\* the request or the reading of its answer raised: query() is left
\* before _remove_parameter
query_raise ==
    \E c \in DOMAIN queries, outcome \in {"unreadable", "unreachable"} :
        /\ queries[c].pc = "awaiting"
        /\ queries' = [queries EXCEPT ![c] = [@ EXCEPT !.pc = "raised"]]
        /\ UNCHANGED <<virtuoso_parameters, statusVars, compileVars, rdfVars,
                       serviceVars, validateVars, pageVars, registerVars>>

NextQuery == query_get \/ query_return \/ query_raise

(***************************************************************************)
(* The status requests.                                                    *)
(***************************************************************************)
\* A stored workflow and what the engine answers for it: the engine is
\* asked only about an executed workflow, and answers with a body only
\* when the request succeeds (_DramaAsyncClient.get).  status_code 0
\* stands for no answer at all.
StatusIdle ==
    /\ executed = None
    /\ status_code = 0
    /\ response = EmptyResponse
    /\ call = "none"
    /\ with_status = STATUS_DONE
    /\ result = HttpError(0)

CompileIdle ==
    /\ workflow = Workflow(<<>>, <<>>, TRUE, TRUE)
    /\ parsed = "no"
    /\ tasks = <<>>
    /\ RdfIdle
    /\ ServiceIdle
    /\ ValidateIdle
    /\ PageIdle
    /\ RegisterIdle
    /\ QueryIdle

InitStatus ==
    /\ CompileIdle
    /\ \/ /\ executed = None
          /\ status_code = 0
          /\ response = EmptyResponse
       \/ /\ executed = "exec-1"
          /\ status_code \in {0, 500}
          /\ response = EmptyResponse
       \/ /\ executed = "exec-1"
          /\ status_code = 200
          /\ response \in Responses
    /\ call = "none"
    /\ with_status = STATUS_DONE
    /\ result = HttpError(0)

\* GET /v3/workflow/status for the one workflow found
V3Status ==
    /\ call = "none"
    /\ call' = "v3_status"
    /\ result' = V3WorkflowWithStatus(executed, response, status_code)
    /\ UNCHANGED <<executed, status_code, response, with_status, compileVars, rdfVars, serviceVars, validateVars,
                 pageVars, registerVars, queryVars>>

\* GET /v3/workflow/fstatus (page_size 1, page_num 1) for the one workflow
\* found: the workflow is returned when its status equals with_status,
\* otherwise the answer is 404.
V3FStatus ==
    /\ call = "none"
    /\ \E ws \in State :
          /\ with_status' = ws
          /\ result' =
                LET w == V3WorkflowWithStatus(executed, response, status_code)
                IN  IF w.status = ws THEN w ELSE HttpError(404)
    /\ call' = "v3_fstatus"
    /\ UNCHANGED <<executed, status_code, response, compileVars, rdfVars, serviceVars, validateVars,
                 pageVars, registerVars, queryVars>>

\* GET /v2/workflow/status
V2Status ==
    /\ call = "none"
    /\ call' = "v2_status"
    /\ result' = V2StatusAnswer(executed, response, status_code)
    /\ UNCHANGED <<executed, status_code, response, with_status, compileVars, rdfVars, serviceVars, validateVars,
                 pageVars, registerVars, queryVars>>

NextStatus == V3Status \/ V3FStatus \/ V2Status

SpecStatus == InitStatus /\ [][NextStatus]_vars

\* The task compiler applied to every document of Workflows.
InitParse ==
    /\ StatusIdle /\ InitCompile /\ RdfIdle /\ ServiceIdle /\ ValidateIdle
    /\ PageIdle /\ RegisterIdle /\ QueryIdle

NextParse == parse_to_list

SpecParse == InitParse /\ [][NextParse]_vars

\* The RDF exporter applied to every document of InitRdf.
InitExport ==
    /\ StatusIdle /\ InitRdf /\ parsed = "idle" /\ tasks = <<>>
    /\ ServiceIdle /\ ValidateIdle
    /\ PageIdle /\ RegisterIdle /\ QueryIdle

NextExport == parse_to_rdf \/ parse_to_rdf_again

SpecExport == InitExport /\ [][NextExport]_vars

\* The v2 workflow endpoints serving one request on a stored state.
InitRequests ==
    /\ StatusIdle /\ CompileOff /\ RdfIdle /\ InitService /\ ValidateIdle
    /\ PageIdle /\ RegisterIdle /\ QueryIdle

SpecService == InitRequests /\ [][NextService]_vars

\* The validation and dump of every inbound document of InitValidate.
InitBodies ==
    /\ StatusIdle /\ CompileOff /\ RdfIdle /\ ServiceIdle /\ InitValidate
    /\ PageIdle /\ RegisterIdle /\ QueryIdle

NextValidate == validate_and_dump

SpecValidate == InitBodies /\ [][NextValidate]_vars

\* The v3 status endpoint over every page of InitPage.
InitPages ==
    /\ StatusIdle /\ CompileOff /\ RdfIdle /\ ServiceIdle /\ ValidateIdle
    /\ InitPage /\ RegisterIdle /\ QueryIdle

SpecPage == InitPages /\ [][NextPage]_vars

\* Concurrent register requests.
InitRegistrations ==
    /\ StatusIdle /\ CompileOff /\ RdfIdle /\ ServiceIdle /\ ValidateIdle
    /\ PageIdle /\ InitRegister /\ QueryIdle

SpecRegister == InitRegistrations /\ [][NextRegister]_vars

\* Concurrent query() calls on one Virtuoso instance.
InitQueries ==
    /\ StatusIdle /\ CompileOff /\ RdfIdle /\ ServiceIdle /\ ValidateIdle
    /\ PageIdle /\ RegisterIdle /\ InitQuery

SpecQuery == InitQueries /\ [][NextQuery]_vars

\* The endpoints that may contact the engine for a stored workflow: the
\* requests of SpecService and the status loop of SpecPage.
SpecEngine == (InitRequests \/ InitPages) /\ [][NextService \/ NextPage]_vars

\* Both parts together.
Init ==
    \/ InitStatus \/ InitParse \/ InitExport \/ InitRequests \/ InitBodies
    \/ InitPages \/ InitRegistrations \/ InitQueries

Next ==
    \/ NextStatus \/ NextParse \/ NextExport \/ NextService \/ NextValidate
    \/ NextPage \/ NextRegister \/ NextQuery

Spec == Init /\ [][Next]_vars

(***************************************************************************)
(* Claims about the status aggregation.                                    *)
(***************************************************************************)
\* The handler got a status report from the engine for the workflow.
ReportObtained == executed # None /\ status_code = 200 /\ response.has_tasks

\* The reported statuses, as reported.
ReportedStates == [i \in DOMAIN response.tasks |-> response.tasks[i].status]

\* Every entry of the report carries one of the six states, spelled as in State.
ReportWellFormed == \A i \in DOMAIN response.tasks : response.tasks[i].status \in State

\* The reference precedence: DONE if all are DONE, else FAILED if any is
\* FAILED, else PENDING if any is PENDING, else RUNNING if any is RUNNING,
\* else UNKNOWN.
ReferencePrecedence(states) ==
    IF \A i \in DOMAIN states : states[i] = STATUS_DONE THEN STATUS_DONE
    ELSE IF \E i \in DOMAIN states : states[i] = STATUS_FAILED THEN STATUS_FAILED
    ELSE IF \E i \in DOMAIN states : states[i] = STATUS_PENDING THEN STATUS_PENDING
    ELSE IF \E i \in DOMAIN states : states[i] = STATUS_RUNNING THEN STATUS_RUNNING
    ELSE STATUS_UNKNOWN

\* The answer of the endpoint that served the request reports workflow
\* state s: the v3 /status and v2 /status answers carry it; /fstatus
\* returns the workflow exactly when its state equals the with_status asked.
AnswerReports(s) ==
    /\ call \in {"v3_status", "v2_status"} => result.code = 200 /\ result.status = s
    /\ call = "v3_fstatus" => (result.code = 200 <=> with_status = s)

\* C1: at every call site that derives a workflow state from an engine
\* report, a report with is_revoked true yields REVOKED, whatever the task
\* entries are.
C1_RevokedYieldsRevoked ==
    (call # "none" /\ ReportObtained /\ response.is_revoked)
        => AnswerReports(STATUS_REVOKED)

\* C2: for every non-revoked, non-empty list of task states drawn from the
\* six states, the v3 aggregation (/status and /fstatus) equals the
\* reference precedence function.
C2_V3EqualsReference ==
    (/\ call \in {"v3_status", "v3_fstatus"}
     /\ ReportObtained /\ ~response.is_revoked
     /\ Len(response.tasks) > 0 /\ ReportWellFormed)
        => AnswerReports(ReferencePrecedence(ReportedStates))

\* C2 witness: v3 /status has answered PENDING for a report that mixes
\* RUNNING, PENDING and DONE tasks.
C2_Witness ==
    /\ call = "v3_status" /\ ReportObtained /\ ~response.is_revoked
    /\ Len(response.tasks) = 3
    /\ {response.tasks[i].status : i \in DOMAIN response.tasks}
          = {STATUS_RUNNING, STATUS_PENDING, STATUS_DONE}
    /\ result.status = STATUS_PENDING

\* C3: a non-revoked report with an empty task list yields UNKNOWN.
C3_EmptyIsUnknown ==
    (call # "none" /\ ReportObtained /\ ~response.is_revoked
       /\ response.tasks = <<>>)
        => AnswerReports(STATUS_UNKNOWN)

\* The report lists only PENDING and RUNNING tasks, at least one of each.
PendingAndRunningOnly ==
    /\ ReportObtained /\ ~response.is_revoked
    /\ {response.tasks[i].status : i \in DOMAIN response.tasks}
          = {STATUS_PENDING, STATUS_RUNNING}

\* C4 (as claimed): every non-revoked list made only of PENDING and RUNNING
\* states, with at least one of each, yields RUNNING at every call site.
C4_PendingRunningIsRunning ==
    (call # "none" /\ PendingAndRunningOnly) => AnswerReports(STATUS_RUNNING)

\* C4 (amended): on such a list the v2 endpoint yields RUNNING and the v3
\* endpoints yield PENDING.
C4_V2RunningV3Pending ==
    /\ (call = "v2_status" /\ PendingAndRunningOnly)
          => AnswerReports(STATUS_RUNNING)
    /\ (call \in {"v3_status", "v3_fstatus"} /\ PendingAndRunningOnly)
          => AnswerReports(STATUS_PENDING)

\* C4 witness: v2 /status has answered RUNNING for a PENDING/RUNNING mix.
C4_Witness ==
    /\ call = "v2_status" /\ PendingAndRunningOnly
    /\ result.code = 200 /\ result.status = STATUS_RUNNING

\* The entries of the report whose status, upper-cased, names a state.
WellFormedEntries ==
    SelectSeq(response.tasks,
              LAMBDA t : t.status # None /\ upper(t.status) \in State)

\* C5: an entry whose status is missing or malformed is skipped: the
\* endpoint raises no error, keeps the task list, and derives the workflow
\* state from the remaining well-formed entries.
C5_MalformedEntriesSkipped ==
    (call # "none" /\ ReportObtained) =>
        LET stats == [i \in DOMAIN WellFormedEntries |->
                         upper(WellFormedEntries[i].status)]
        IN  /\ call \in {"v3_status", "v3_fstatus"} =>
                  AnswerReports(V3WorkflowStatus(response.is_revoked, stats))
            /\ call = "v2_status" => AnswerReports(V2WorkflowStatus(stats))
            /\ result.code = 200 => result.has_tasks

\* The report with every status that is a differently-cased spelling of a
\* state replaced by the state's own spelling.
CaseNormalized(resp) ==
    [resp EXCEPT !.tasks =
        [i \in DOMAIN resp.tasks |->
            IF resp.tasks[i].status # None /\ upper(resp.tasks[i].status) \in State
            THEN [resp.tasks[i] EXCEPT !.status = upper(resp.tasks[i].status)]
            ELSE resp.tasks[i]]]

\* C6: task states are case-normalized before aggregation: the answer for
\* a report equals the answer for the same report with the states spelled
\* in upper case (workflow state and per-task statuses).
C6_CaseInsensitive ==
    /\ call = "v3_status" =>
          result = V3WorkflowWithStatus(executed, CaseNormalized(response), status_code)
    /\ call = "v3_fstatus" =>
          LET w == V3WorkflowWithStatus(executed, CaseNormalized(response), status_code)
          IN  result = IF w.status = with_status THEN w ELSE HttpError(404)
    /\ call = "v2_status" =>
          result = V2StatusAnswer(executed, CaseNormalized(response), status_code)

(***************************************************************************)
(* Claims about parse_to_list.                                             *)
(***************************************************************************)
\* parse_to_list was called on a document whose operators and links are
\* both mappings.
ParsedMappings ==
    parsed # "no" /\ ~workflow.links_is_none /\ ~workflow.operators_is_none

\* the links that target input connector in_idx of operator op_idx
LinksTo(op_idx, in_idx) ==
    {i \in DOMAIN workflow.links :
        /\ workflow.links[i].toOperator = op_idx
        /\ workflow.links[i].toConnector = in_idx}

\* link i names a source operator and an output connector of it that exist
SourceExists(i) ==
    \E s \in DOMAIN workflow.operators :
        /\ workflow.operators[s].key = workflow.links[i].fromOperator
        /\ \E o \in DOMAIN workflow.operators[s].outputs :
              workflow.operators[s].outputs[o].key = workflow.links[i].fromConnector

\* link i names a destination operator and an input connector of it that exist
DestinationExists(i) ==
    \E d \in DOMAIN workflow.operators :
        /\ workflow.operators[d].key = workflow.links[i].toOperator
        /\ \E c \in DOMAIN workflow.operators[d].inputs :
              workflow.operators[d].inputs[c].key = workflow.links[i].toConnector

\* the input connector is unlinked, or what is linked to it does not exist
Unresolved(op_idx, in_idx) == \A i \in LinksTo(op_idx, in_idx) : ~SourceExists(i)

UniqueDestination(i) ==
    \A j \in DOMAIN workflow.links :
        (/\ workflow.links[j].toOperator = workflow.links[i].toOperator
         /\ workflow.links[j].toConnector = workflow.links[i].toConnector) => j = i

\* The destination task of link i maps the destination connector's name to
\* "<source operator name>.<source output connector name>".
ResolvedByNames(i) ==
    \E d, s \in DOMAIN workflow.operators :
        /\ workflow.operators[d].key = workflow.links[i].toOperator
        /\ workflow.operators[s].key = workflow.links[i].fromOperator
        /\ \E c \in DOMAIN workflow.operators[d].inputs :
           \E o \in DOMAIN workflow.operators[s].outputs :
              /\ workflow.operators[d].inputs[c].key = workflow.links[i].toConnector
              /\ workflow.operators[s].outputs[o].key = workflow.links[i].fromConnector
              /\ workflow.operators[d].inputs[c].name \in DOMAIN tasks[d].inputs
              /\ tasks[d].inputs[workflow.operators[d].inputs[c].name]
                    = workflow.operators[s].name \o "." \o
                      workflow.operators[s].outputs[o].name

\* C8 (as claimed): for every link whose destination pair is unique among
\* the links, the destination task maps the input connector's name to
\* "<source operator name>.<source output connector name>".
C8_UniqueLinkResolves ==
    parsed = "returned" =>
        \A i \in DOMAIN workflow.links :
            (UniqueDestination(i) /\ DestinationExists(i)) => ResolvedByNames(i)

\* C8 (amended): the same, for the links whose source operator and output
\* connector exist in the workflow.
C8_UniqueExistingLinkResolves ==
    parsed = "returned" =>
        \A i \in DOMAIN workflow.links :
            (UniqueDestination(i) /\ DestinationExists(i) /\ SourceExists(i))
                => ResolvedByNames(i)

\* C8 witness: two links with different destinations, both resolved.
C8_Witness ==
    /\ parsed = "returned"
    /\ Len(workflow.links) = 2
    /\ \A i \in DOMAIN workflow.links :
          UniqueDestination(i) /\ DestinationExists(i) /\ SourceExists(i)
             /\ ResolvedByNames(i)

CoercedIntFloatBool(value) ==
    CASE value = Str("7") -> [t |-> "int", v |-> "7"]
      [] value = Str("3.14") -> [t |-> "float", v |-> "3.14"]
      [] value = Str("true") -> [t |-> "bool", v |-> "True"]
      [] OTHER -> value

\* The same, with the time, datetime and date strings converted too.
CoercedWithTimeAndDate(value) ==
    CASE value = Str("10:30") -> [t |-> "time", v |-> "10:30"]
      [] value = Str("2020-01-01 10:30:00")
            -> [t |-> "datetime", v |-> "2020-01-01 10:30:00"]
      [] value = Str("2020-01-01") -> [t |-> "date", v |-> "2020-01-01"]
      [] OTHER -> CoercedIntFloatBool(value)

\* the last parameter of the dict that carries the name
LastNamed(parameters, name) ==
    parameters[CHOOSE k \in DOMAIN parameters :
                  /\ parameters[k].name = name
                  /\ \A j \in DOMAIN parameters :
                        parameters[j].name = name => j <= k]

Leaving(g, s, p) == {t \in g : t[1] = s /\ t[2] = p}

\* C11: the graph of every accepted workflow holds exactly one numTask
\* triple on the workflow node, its integer literal is the number of
\* operators, and so is the number of distinct hasTask triples that leave
\* the workflow node.
C11_NumTaskCountsOperatorsAndTasks ==
    exported = "returned" =>
        LET name == WorkflowNode(workflow_id)
        IN  /\ Leaving(graph, name, uriref_num_task) =
                  {<<name, uriref_num_task, Literal_int(Len(workflow.operators))>>}
            /\ Cardinality(Leaving(graph, name, uriref_has_task)) =
                  Len(workflow.operators)

\* the (workflow id, operator key) pairs exported with definition URI u
PairsOf(u) ==
    {<<id, workflow.operators[i].key>> :
        id \in {workflow_id, other_id},
        i \in {j \in DOMAIN workflow.operators : workflow.operators[j].definition = u}}

\* the task nodes that the two graphs link to component u
TaskNodesOf(u) ==
    {t[1] : t \in {x \in graph \cup other_graph :
                      x[2] = uriref_has_component /\ x[3] = URIRef(u)}}

\* C12: operators with one definition URI get different task nodes for
\* different (workflow id, operator key) pairs, hyphens in ids and keys
\* included: after two exports there are as many task nodes of a component
\* as pairs exported with it.
C12_TaskNodeUniquePerPair ==
    (exported = "returned" /\ other_id # None) =>
        \A i \in DOMAIN workflow.operators :
            LET u == workflow.operators[i].definition
            IN  Cardinality(TaskNodesOf(u)) = Cardinality(PairsOf(u))

\* what the claims expect on the task node of one operator
ExpectedOnTaskNode(op, task) ==
    {<<task, uriref_has_task_name, Literal_str(op.name)>>,
     <<task, uriref_task_has_number_inputs, Literal_int(Len(op.inputs))>>,
     <<task, uriref_task_has_number_outputs, Literal_int(Len(op.outputs))>>,
     <<task, uriref_has_component, URIRef(op.definition)>>}
    \cup {<<task, uriref_task_specifies_input_class, URIRef(op.inputs[j].definition)>> :
             j \in DOMAIN op.inputs}
    \cup {<<task, uriref_task_specifies_output_class, URIRef(op.outputs[j].definition)>> :
             j \in DOMAIN op.outputs}

\* C13: the task node of every operator of an accepted workflow carries the
\* operator's display name (hasName), its numbers of input and of output
\* connectors (numberOfInputs, numberOfOutputs), a specifiesInputClass /
\* specifiesOutputClass triple to the definition URI of every input /
\* output connector and a hasComponent triple to the operator's definition
\* URI; a node that belongs to one operator only carries nothing else.
C13_TaskNodeDescribesOperator ==
    exported = "returned" =>
        \A i \in DOMAIN workflow.operators :
            LET op == workflow.operators[i]
                task == URIRef(op.definition \o "-" \o workflow_id \o "-" \o op.key)
                alone == \A j \in DOMAIN workflow.operators :
                            TaskNode(workflow.operators[j], workflow_id) = task => j = i
            IN  /\ ExpectedOnTaskNode(op, task) \subseteq graph
                /\ <<WorkflowNode(workflow_id), uriref_has_task, task>> \in graph
                /\ alone => {t \in graph : t[1] = task} = ExpectedOnTaskNode(op, task)

\* C13 witness: the graph of a workflow whose operator op_1 has two input
\* connectors and one output connector was returned, and its task node
\* carries the counts 2 and 1.
C13_Witness ==
    /\ exported = "returned"
    /\ \E i \in DOMAIN workflow.operators :
          LET op == workflow.operators[i]
              task == URIRef("https://www.w3.org/#Component1-test-1-1-op_1")
          IN  /\ op.key = "op_1" /\ Len(op.inputs) = 2 /\ Len(op.outputs) = 1
              /\ <<task, uriref_task_has_number_inputs, Literal_int(2)>> \in graph
              /\ <<task, uriref_task_has_number_outputs, Literal_int(1)>> \in graph
              /\ <<task, uriref_has_task_name, Literal_str("DemoTaskTwo")>> \in graph

\* the predicates the repository's test expects
TestPredicates ==
    {URIRef("http://www.khaos.uma.es/perception/bigowl#" \o n) :
        n \in {"numTask", "hasTask", "hasName", "numberOfInputs", "numberOfOutputs",
               "specifiesInputClass", "specifiesOutputClass", "hasComponent"}}

\* C14: the workflow node is named
\* http://www.khaos.uma.es/khaosteam/sensacion/titan-workflow#Workflow
\* followed by the workflow id and typed as DMOP.owl#Workflow, and the
\* predicates of the graph are those of the namespace
\* http://www.khaos.uma.es/perception/bigowl#.
C14_TestNamespaces ==
    exported = "returned" =>
        LET name == URIRef("http://www.khaos.uma.es/khaosteam/sensacion/titan-workflow#Workflow"
                           \o workflow_id)
        IN  /\ <<name, RDF_type,
                 URIRef("http://www.e-lico.eu/ontologies/dmo/DMOP/DMOP.owl#Workflow")>>
                  \in graph
            /\ <<name, URIRef("http://www.khaos.uma.es/perception/bigowl#numTask"),
                 Literal_int(Len(workflow.operators))>> \in graph
            /\ \A t \in graph : t[2] = RDF_type \/ t[2] \in TestPredicates

(***************************************************************************)
(* Claims about the persistence and export of a workflow.                  *)
(***************************************************************************)
\* The request was a create or an update and WorkflowManager.upsert wrote
\* the workflow to the database.
UpsertWrote ==
    /\ request.endpoint \in {"new", "update"}
    /\ effects # <<>>
    /\ effects[1].op = "db.update_one" /\ effects[1].ok

\* an operator or a connector of the document lacks definition.uri
Defective(w) ==
    /\ ~w.operators_is_none
    /\ \E i \in DOMAIN w.operators :
          \/ w.operators[i].definition = None
          \/ \E j \in DOMAIN w.operators[i].inputs :
                w.operators[i].inputs[j].definition = None
          \/ \E j \in DOMAIN w.operators[i].outputs :
                w.operators[i].outputs[j].definition = None

\* store.update was called by the request
StoreCalled == \E i \in DOMAIN effects : effects[i].op = "store.update"

\* C15: when an operator or a connector of the workflow lacks
\* definition.uri, parse_to_rdf fails with an error and returns no graph,
\* and upsert sends none of the workflow's triples to the triple store,
\* those of the operators before the defective one included.
C15_DefectiveDocumentExportsNothing ==
    (UpsertWrote /\ Defective(request.document)) =>
        /\ export = "KeyError"
        /\ ~StoreCalled
        /\ RdfRaises(request.document)

\* C15 witness: an update whose second operator lacks its definition was
\* written to the database, the export ended with KeyError and the store
\* was not called.
C15_Witness ==
    /\ UpsertWrote /\ request.endpoint = "update"
    /\ request.document.operators =
          <<TestOperator0, TestOperator1(None, DataURI)>>
    /\ export = "KeyError"
    /\ Len(effects) = 1

\* C16: in upsert the database write comes before the RDF export, and
\* however the export fails (graph construction, serialization, store
\* update, an exception without arguments) the write is retained and
\* upsert returns the persisted workflow instead of raising.
C16_ExportFailureKeepsWriteAndReturns ==
    UpsertWrote =>
        /\ \A i \in DOMAIN effects : effects[i].op = "store.update" => i > 1
        /\ \E d \in db : d.updated_at = Now /\ d.author = jwt_sub(request.token)
        /\ answer.code = 200 /\ answer.kind = "workflow"

\* the RDF export of the request failed: an exception was caught, or the
\* store rejected the update
ExportFailed ==
    \/ export \in {"KeyError", "Exception", "ConnectError", "JSONDecodeError",
                   "Exception()"}
    \/ \E i \in DOMAIN effects : effects[i].op = "store.update" /\ ~effects[i].ok

\* C17: when the RDF export fails during create or update, the caller
\* gets an error report, and one that differs from the report of a
\* validation error.
C17_ExportFailureIsReported ==
    (UpsertWrote /\ ExportFailed) =>
        /\ answer.kind = "error"
        /\ answer.code # RequestValidationError.code

\* C18: after a successful update the stored operators and links are
\* exactly those of the document, also when the document omits operators
\* or links.
C18_UpdateReplacesWholesale ==
    (request.endpoint = "update" /\ answer.code = 200) =>
        \A d \in db :
            d.id = request.workflow_id =>
                /\ d.operators_is_none = request.document.operators_is_none
                /\ d.operators = request.document.operators
                /\ d.links_is_none = request.document.links_is_none
                /\ d.links = request.document.links

(***************************************************************************)
(* Claims about the authentication of the v2 workflow endpoints.           *)
(***************************************************************************)
V2Endpoints == {"new", "update", "get", "get_all", "run", "revoke", "status"}

\* C20: a request to a v2 workflow endpoint without bearer token is
\* answered 401 "Not authenticated" before the endpoint function runs: no
\* database write, no engine call, no store update.
C20_NoTokenIsRejected ==
    (request.endpoint \in V2Endpoints /\ request.token = NoToken) =>
        /\ answer.code = 401 /\ answer.detail = "Not authenticated"
        /\ effects = <<>>
        /\ export = "not run"
        /\ \A d \in db : d.updated_at = Earlier /\ d.executed # "exec-2"
        /\ store = StoreOf(db)

\* C20 witness: a run request without token for an executed workflow of
\* the database was answered 401.
C20_Witness ==
    /\ request.endpoint = "run" /\ request.token = NoToken
    /\ \E d \in db : d.id = request.workflow_id /\ d.executed = "exec-1"
    /\ answer.code = 401 /\ answer.detail = "Not authenticated"

(***************************************************************************)
(* Claims about the validation of inbound documents.                       *)
(***************************************************************************)
\* the unrecognized fields of each entity of a document
ExtrasOf(body) ==
    [x \in Entities |->
        CASE x = "workflow" -> body.extra
          [] x = "operator" -> body.operators[1].extra
          [] x = "operator_properties" -> body.operators[1].properties.extra
          [] x = "connector" -> body.operators[1].properties.inputs[1].extra
          [] x = "connector_properties" ->
                body.operators[1].properties.inputs[1].properties.extra
          [] x = "parameter" -> body.operators[1].parameters[1].extra
          [] x = "parameter_properties" ->
                body.operators[1].parameters[1].properties.extra
          [] x = "definition" -> body.operators[1].definition.extra
          [] x = "link" -> body.links[1].extra]

\* C19: validating an inbound document and dumping it again preserves
\* every unrecognized field of every entity: operators, operator
\* properties, connectors, parameters, definitions, links and the workflow
\* document itself.
C19_ExtraFieldsPreserved ==
    validation = "dumped" => ExtrasOf(dumped) = ExtrasOf(inbound)

(***************************************************************************)
(* Claims about the author of a stored workflow.                           *)
(***************************************************************************)
\* the user the dependencies of the request resolved
CurrentUser == jwt_sub(request.token)

\* the exporter's triples for the document of the request, computed from
\* its operators alone
TriplesOfRequest(id) ==
    RdfGraph(Workflow(request.document.operators, request.document.links,
                      request.document.operators_is_none,
                      request.document.links_is_none), id)

\* C21: after every insert or upsert performed for username u the stored
\* workflow's metadata.author is u, whatever author the submitted
\* metadata carried; the triples parse_to_rdf produced for it are those
\* of the document without its metadata.
C21_AuthorIsTheRequestingUser ==
    UpsertWrote =>
        /\ \E d \in db : d.updated_at = Now
        /\ \A d \in db : d.updated_at = Now => d.author = CurrentUser
        /\ \A i \in DOMAIN effects :
              effects[i].op = "store.update" =>
                 \E d \in db : /\ d.updated_at = Now
                               /\ effects[i].data = TriplesOfRequest(d.id)

\* C21 witness: bob created a workflow whose metadata named alice as its
\* author; it is stored with author bob and its triples were sent.
C21_Witness ==
    /\ UpsertWrote /\ request.endpoint = "new" /\ CurrentUser = "bob"
    /\ request.document.author = "alice"
    /\ \E d \in db : d.updated_at = Now /\ d.author = "bob"
    /\ StoreCalled

(***************************************************************************)
(* Claims about links that share a destination.                            *)
(***************************************************************************)
\* the last of the links that target the pair, in iteration order
LastLinkTo(op_idx, in_idx) ==
    CHOOSE i \in LinksTo(op_idx, in_idx) : \A j \in LinksTo(op_idx, in_idx) : j <= i

\* "<source operator name>.<source output connector name>" of link i, or
\* None when the source operator or its output connector does not exist
SourceOf(i) ==
    IF ~SourceExists(i) THEN None
    ELSE LET s == CHOOSE x \in DOMAIN workflow.operators :
                     workflow.operators[x].key = workflow.links[i].fromOperator
             o == CHOOSE y \in DOMAIN workflow.operators[s].outputs :
                     workflow.operators[s].outputs[y].key = workflow.links[i].fromConnector
         IN  workflow.operators[s].name \o "." \o workflow.operators[s].outputs[o].name

\* the links without those that a later link with the same destination
\* pair follows
LastLinksOnly ==
    SelectSeq(workflow.links,
              LAMBDA l : \E i \in DOMAIN workflow.links :
                            /\ workflow.links[i] = l
                            /\ i = LastLinkTo(l.toOperator, l.toConnector))

\* C22: when several links target one (toOperator, toConnector) pair,
\* parse_to_list raises nothing and resolves that input from the source
\* of the link that comes last in the iteration order of the links; the
\* earlier links have no effect on the task list.
C22_LastLinkWins ==
    ParsedMappings =>
        /\ parsed = "returned"
        /\ \A d \in DOMAIN workflow.operators :
              \A c \in DOMAIN workflow.operators[d].inputs :
                 LET op == workflow.operators[d]
                 IN  LinksTo(op.key, op.inputs[c].key) # {} =>
                        tasks[d].inputs[op.inputs[c].name]
                           = SourceOf(LastLinkTo(op.key, op.inputs[c].key))
        /\ tasks = TaskList([workflow EXCEPT !.links = LastLinksOnly])

\* C22 witness: two links from different existing sources target one
\* input connector, and the task carries the source of the second.
C22_Witness ==
    /\ parsed = "returned"
    /\ Len(workflow.links) = 2
    /\ workflow.links[1].toOperator = workflow.links[2].toOperator
    /\ workflow.links[1].toConnector = workflow.links[2].toConnector
    /\ SourceExists(1) /\ SourceExists(2) /\ DestinationExists(2)
    /\ SourceOf(1) # SourceOf(2)
    /\ \E d \in DOMAIN workflow.operators :
       \E n \in DOMAIN tasks[d].inputs : tasks[d].inputs[n] = SourceOf(2)

(***************************************************************************)
(* Claims about the two status aggregations compared.                      *)
(***************************************************************************)
\* the states the report lists
ReportedStateSet == {response.tasks[i].status : i \in DOMAIN response.tasks}

\* the list mixes PENDING or RUNNING with other states
MixesPendingOrRunning ==
    /\ ReportedStateSet \cap {STATUS_PENDING, STATUS_RUNNING} # {}
    /\ Cardinality(ReportedStateSet) > 1

\* the workflow state each variant derives from the report
V2State == V2StatusAnswer(executed, response, status_code).status
V3State == V3WorkflowWithStatus(executed, response, status_code).status

\* the state the variant that did not serve the request derives
OtherVariant == IF call = "v2_status" THEN V3State ELSE V2State

\* C23: on every non-revoked report of task states that does not mix
\* PENDING or RUNNING with other states (no PENDING and no RUNNING, all
\* PENDING, all RUNNING) the v2 and the v3 aggregation answer the same
\* workflow state; one answers FAILED (DONE) exactly when the other does.
C23_V2AndV3AgreeOffMixes ==
    (call # "none" /\ ReportObtained /\ ~response.is_revoked /\ ReportWellFormed) =>
        /\ ~MixesPendingOrRunning => AnswerReports(OtherVariant)
        /\ call \in {"v2_status", "v3_status"} =>
              \A s \in {STATUS_FAILED, STATUS_DONE} :
                 result.status = s <=> OtherVariant = s
        /\ call = "v3_fstatus" =>
              \A s \in {STATUS_FAILED, STATUS_DONE} :
                 with_status = s => (result.code = 200 <=> V2State = s)

\* C23 witness: v2 /status has answered FAILED for a report of FAILED and
\* DONE tasks, as the v3 aggregation does.
C23_Witness ==
    /\ call = "v2_status" /\ ReportObtained /\ ~response.is_revoked
    /\ ReportedStateSet = {STATUS_FAILED, STATUS_DONE}
    /\ result.status = STATUS_FAILED /\ V3State = STATUS_FAILED

(***************************************************************************)
(* Claims about the last execution id.                                     *)
(***************************************************************************)
\* the effects of the request are the accepted dispatch followed by the
\* write of the execution id
DispatchRecorded(effs) ==
    /\ Len(effs) = 2
    /\ effs[1].op = "engine.post" /\ effs[1].ok
    /\ effs[1].data = "/api/v2/workflow/run"
    /\ effs[2].op = "db.update_one" /\ effs[2].ok

\* One request, seen from stored workflow d and the same workflow e after
\* the request.
ExecutedStep(d, e) ==
    \* executed changes only by a dispatch the engine answered with 200
    \* and an id, and becomes that id; nothing else of the record changes
    /\ e.executed # d.executed =>
          /\ request'.endpoint = "run" /\ request'.workflow_id = d.id
          /\ DispatchRecorded(effects')
          /\ e = [d EXCEPT !.executed = "exec-2"]
    \* such a dispatch does set it
    /\ (/\ request'.endpoint = "run" /\ request'.workflow_id = d.id
        /\ DispatchRecorded(effects')) => e.executed = "exec-2"
    \* a dispatch that failed, a compile error, revoke, the status query
    \* and the reads leave the record as it was
    /\ (/\ request'.endpoint \in {"run", "revoke", "status", "get", "get_all",
                                 "v3_revoke"}
        /\ ~DispatchRecorded(effects')) => e = d

EngineContacted ==
    \E i \in DOMAIN effects : effects[i].op \in {"engine.post", "engine.get"}

\* the entry of a workflow whose status could not be derived
StatusUnset(e) == e.status = STATUS_UNKNOWN /\ ~e.has_tasks /\ e.tasks = <<>>

\* C25: the engine is never contacted for a workflow that has no last
\* execution id: revoke (v2 and v3) and the v2 status endpoint answer with
\* an error, and the v3 status loop reports the workflow as UNKNOWN with
\* no tasks, all without an engine request.
C25_NoEngineRequestBeforeExecution ==
    /\ request.endpoint \in {"revoke", "v3_revoke", "status"} =>
          \A d \in db :
             (d.id = request.workflow_id /\ d.executed = None) =>
                answer.kind = "error" /\ ~EngineContacted
    /\ \A i \in DOMAIN page :
          (i < pos /\ page[i].executed = None) =>
             /\ \A c \in DOMAIN engine_calls : engine_calls[c].id # page[i].id
             /\ i \in DOMAIN workflows_with_status
             /\ StatusUnset(workflows_with_status[i])

\* C25 witness: the v3 revoke of a stored workflow of the user that was
\* never executed was answered with an error.
C25_Witness ==
    /\ request.endpoint = "v3_revoke"
    /\ \E d \in db : /\ d.id = request.workflow_id /\ d.executed = None
                     /\ d.author = request.username
    /\ answer.code = 404 /\ answer.detail = "Workflow has not been executed yet"
    /\ effects = <<>>

\* deriving the status of found workflow w fails: it was never executed,
\* the engine does not answer 200, the report has no tasks or an entry
\* that is no valid task
Failing(w) ==
    \/ w.executed = None
    \/ w.engine # "ok"
    \/ ~w.report.has_tasks
    \/ \E t \in DOMAIN w.report.tasks : w.report.tasks[t].status \notin State

\* the state of a well-formed report
StateOfReport(report) ==
    IF report.is_revoked THEN STATUS_REVOKED
    ELSE ReferencePrecedence([t \in DOMAIN report.tasks |-> report.tasks[t].status])

\* C26: in the v3 status endpoint a failure while deriving one workflow's
\* status affects only that workflow, which is returned with status
\* UNKNOWN and tasks unset; every other workflow of the page gets the
\* state of its own report, and the answer has one entry per workflow
\* found, in the order found.
C26_FailureStaysWithItsWorkflow ==
    /\ (page # <<>> /\ pos = Len(page) + 2) => page_answer.code = 200
    /\ page_answer.code = 200 =>
          /\ Len(page_answer.workflows) = Len(page)
          /\ \A i \in DOMAIN page :
                LET e == page_answer.workflows[i]
                    w == page[i]
                IN  /\ e.id = w.id
                    /\ Failing(w) => StatusUnset(e)
                    /\ ~Failing(w) =>
                          /\ e.has_tasks
                          /\ Len(e.tasks) = Len(w.report.tasks)
                          /\ e.status = StateOfReport(w.report)

\* C26 witness: of three workflows the second failed (the engine answered
\* with an error); the first is reported DONE and the third PENDING.
C26_Witness ==
    /\ page_answer.code = 200 /\ Len(page) = 3
    /\ page[2].executed # None /\ page[2].engine = "error"
    /\ StatusUnset(page_answer.workflows[2])
    /\ page_answer.workflows[1].status = STATUS_DONE
    /\ page_answer.workflows[3].status = STATUS_PENDING

(***************************************************************************)
(* Claims about concurrent requests.                                       *)
(***************************************************************************)
\* C27: under any interleaving of concurrent register requests the users
\* collection never holds two users with one username or two users with
\* one email.
C27_UsernamesAndEmailsUnique ==
    \A a, b \in accounts :
        (a.username = b.username \/ a.email = b.email) => a = b

\* C30: when several query() calls run concurrently on the shared
\* Virtuoso instance, every request is sent with the query string of its
\* own call, and once all calls have finished the parameters hold no
\* "query" entry, only the two entries set at construction.
C30_OwnQueryAndNoLeftover ==
    /\ \A c \in DOMAIN queries :
          queries[c].pc # "start" => queries[c].sent = queries[c].query_string
    /\ (queries # <<>> /\ \A c \in DOMAIN queries :
                            queries[c].pc \in {"returned", "raised"})
          => virtuoso_parameters = ConstructionParameters

(***************************************************************************)
(* Claims about the listing and the ownership of workflows.                *)
(***************************************************************************)
\* the least number of pages of page_size items that covers total_count
LeastPageCount(total_count, page_size) ==
    CHOOSE n \in 0..total_count :
        /\ n * page_size >= total_count
        /\ \A m \in 0..total_count : m * page_size >= total_count => n <= m

\* C28: for every total_count >= 0 and page_size >= 1 the page_count of
\* the workflow listing is the least number of pages of page_size items
\* that covers total_count, ceil(total_count / page_size).
C28_PageCountIsCeiling ==
    (request.endpoint = "get_all" /\ answer.code = 200) =>
        answer.body.pagination.page_count
           = LeastPageCount(answer.body.pagination.total_count, request.page_size)

\* the answer carries stored workflow d
Returns(ans, d) ==
    /\ ans.kind = "workflow" => ans.body.id = d.id
    /\ ans.kind = "workflows" =>
          \E i \in DOMAIN ans.body.workflows : ans.body.workflows[i].id = d.id
    /\ ans.kind = "status" => ans.body.workflow.id = d.id
    /\ ans.kind \in {"workflow", "workflows", "status"}

\* C29: through the v2 endpoints a user reads, updates, runs, revokes or
\* queries the status of a workflow only if its stored metadata.author is
\* that user's username: a request by anyone else leaves the workflow's
\* operators, links, metadata and last execution id unchanged and does
\* not return the workflow.
C29_OnlyTheAuthorReachesAWorkflow ==
    [][\A d \in db :
          (/\ request'.endpoint \in V2Endpoints
           /\ d.author # jwt_sub(request'.token)) =>
              /\ d \in db'
              /\ ~Returns(answer', d)]_vars

\* C29 witness: bob asked to update a workflow of alice and was answered
\* 404; the workflow is stored as it was.
C29_Witness ==
    /\ request.endpoint = "update" /\ CurrentUser = "bob"
    /\ request.body = "document"
    /\ \E d \in db : /\ d.id = request.workflow_id /\ d.author = "alice"
                     /\ d.updated_at = Earlier
    /\ answer.code = 404

====
